---------------------------- MODULE Spec2Model ----------------------------
(***************************************************************************)
(* Enrichment passes of radio-playlist-scraper.                            *)
(*                                                                         *)
(*   SpecAC      enrich_artist_country.enrich_artist_country, run and run  *)
(*               again on its own output; the HTTP answers of the catalog  *)
(*               can fail or be malformed                                  *)
(*   SpecEI      enrich_itunes.enrich_items                                *)
(*   SpecMBZ     enrich_musicbrainz.main, run and run again                *)
(*   SpecCaches  either of the two scripts that keep a CACHE_MISS cache    *)
(*   SpecACLive  enrich_artist_country.py run again and again              *)
(*   SpecScorers    the candidate scorers of the three enrichment scripts  *)
(*   SpecNormalize  the artist normalisers of the two MusicBrainz scripts  *)
(*   SpecScraper    scraper.main                                           *)
(*   SpecItunesEnrich  itunes_enrich.enrich_one and its iTunes search      *)
(*                                                                         *)
(* Python values are written as TLA+ strings.  Two reserved spellings      *)
(* stand for values that are not Python strings: None (the value None)     *)
(* and Absent (the key is not in the dict).  dict.get(k) of an Absent key  *)
(* is None.                                                                *)
(***************************************************************************)
EXTENDS Integers, Sequences, FiniteSets, TLC

None   == "<None>"
Absent == "<absent>"

\* enrich_artist_country.py:37-38, enrich_itunes.py:58-59
NOT_FOUND  == "Not found"
CACHE_MISS == "__MISS__"

(***************************************************************************)
(* Bounds of the model.                                                    *)
(***************************************************************************)
MaxItems == 2
MaxLimit == 2
MaxRuns  == 2
\* enrich_itunes: the largest --limit and --mb-limit
EIMaxLimit == 1
\* enrich_musicbrainz: records, --limit, --writers-limit
MBZMaxItems == 1
MBZMaxLimit == 1
MaxWritersLimit == 3

(***************************************************************************)
(* Strings.  TLC gives Len, \o and SubSeq on strings; a character is a     *)
(* string of length 1.                                                     *)
(***************************************************************************)
Char(s, i) == SubSeq(s, i, i)

UpperAZ == "ABCDEFGHIJKLMNOPQRSTUVWXYZ"
LowerAZ == "abcdefghijklmnopqrstuvwxyz"
\* the tab and the printable ASCII characters that are no letters (but for
\* the backquote, which a string of the model cannot hold)
OtherAscii == "\t !\"#$%&'()*+,-./0123456789:;<=>?@[\\]^_{|}~"

\* The letters of Latin-1 that NFKD takes apart, and the ASCII letter left
\* once the combining mark is dropped (same position in both strings).
\* The other characters of Latin-1 in the model are the letters NFKD
\* leaves whole and the signs of AccentedPlain.
Accented   == "ÀÁÂÃÄÅÇÈÉÊËÌÍÎÏÑÒÓÔÕÖÙÚÛÜÝàáâãäåçèéêëìíîïñòóôõöùúûüýÿ"
AccentBase == "AAAAAACEEEEIIIINOOOOOUUUUYaaaaaaceeeeiiiinooooouuuuyy"

\* The capitals of Latin-1 and their small letters (same position)
AccentedUpper == "ÀÁÂÃÄÅÆÇÈÉÊËÌÍÎÏÐÑÒÓÔÕÖØÙÚÛÜÝÞ"
AccentedLower == "àáâãäåæçèéêëìíîïðñòóôõöøùúûüýþ"

\* Letters of Latin-1 that NFKD leaves as they are
AccentedPlain == "ÆÐØÞßæðøþ"

IsSpace(c) == c \in {" ", "\t"}

IndexIn(c, alphabet) ==
    LET hits == {i \in 1..Len(alphabet) : Char(alphabet, i) = c}
    IN  IF hits = {} THEN 0 ELSE CHOOSE i \in hits : TRUE

IsAscii(c) == IndexIn(c, UpperAZ) > 0 \/ IndexIn(c, LowerAZ) > 0
              \/ IndexIn(c, OtherAscii) > 0

\* unicodedata.normalize("NFKD", c).encode("ascii", "ignore") of one character
FoldChar(c) ==
    IF IsAscii(c) THEN c
    ELSE IF IndexIn(c, Accented) > 0
         THEN Char(AccentBase, IndexIn(c, Accented))
         ELSE ""

\* str.lower of one character: a capital, accented or not, becomes its
\* small letter
LowerChar(c) ==
    IF IndexIn(c, UpperAZ) > 0 THEN Char(LowerAZ, IndexIn(c, UpperAZ))
    ELSE IF IndexIn(c, AccentedUpper) > 0
         THEN Char(AccentedLower, IndexIn(c, AccentedUpper))
         ELSE c

\* str.casefold of one character: as str.lower, and the sharp s becomes ss
CasefoldChar(c) == IF c = "ß" THEN "ss" ELSE LowerChar(c)

RECURSIVE MapChars(_, _)
\* which = "fold": _ascii_fold;  "casefold": str.casefold;  "lower": str.lower
MapChars(s, which) ==
    IF Len(s) = 0 THEN ""
    ELSE (IF which = "fold" THEN FoldChar(Char(s, 1))
          ELSE IF which = "casefold" THEN CasefoldChar(Char(s, 1))
          ELSE LowerChar(Char(s, 1)))
         \o MapChars(SubSeq(s, 2, Len(s)), which)

_ascii_fold(s) == MapChars(s, "fold")

casefold(s) == MapChars(s, "casefold")

\* str.lower
lower(s) == MapChars(s, "lower")

RECURSIVE lstrip(_)
lstrip(s) ==
    IF Len(s) > 0 /\ IsSpace(Char(s, 1)) THEN lstrip(SubSeq(s, 2, Len(s))) ELSE s

RECURSIVE rstrip(_)
rstrip(s) ==
    IF Len(s) > 0 /\ IsSpace(Char(s, Len(s)))
    THEN rstrip(SubSeq(s, 1, Len(s) - 1)) ELSE s

\* str.strip()
strip(s) == lstrip(rstrip(s))

\* First index >= i of s holding a non-space character, Len(s)+1 if none.
RunEnd(s, i) ==
    LET rest == {j \in i..Len(s) : ~IsSpace(Char(s, j))}
    IN  IF rest = {} THEN Len(s) + 1 ELSE CHOOSE j \in rest : \A k \in rest : j <= k

Min(S) == CHOOSE x \in S : \A y \in S : x <= y

RECURSIVE SubParens(_)
\* re.sub(r"\s+\(.*?\)", "", s): every run of white space followed by a
\* parenthesised text (up to the first closing parenthesis) is removed.
SubParens(s) ==
    LET n == Len(s)
        closeAfter(j) == {k \in (j + 1)..n : Char(s, k) = ")"}
        starts == {i \in 1..n :
                     /\ IsSpace(Char(s, i))
                     /\ RunEnd(s, i) <= n
                     /\ Char(s, RunEnd(s, i)) = "("
                     /\ closeAfter(RunEnd(s, i)) # {}}
    IN  IF starts = {} THEN s
        ELSE LET i == Min(starts)
                 k == Min(closeAfter(RunEnd(s, i)))
             IN  SubSeq(s, 1, i - 1) \o SubParens(SubSeq(s, k + 1, n))

FeatTokens == {"feat.", "ft.", "featuring"}

\* re.sub(r"\s+(feat\.|ft\.|featuring)\s+.*$", "", s, flags=re.IGNORECASE)
SubFeat(s) ==
    LET n == Len(s)
        tokenAt(j) == \E t \in FeatTokens :
                         /\ j + Len(t) <= n
                         /\ casefold(SubSeq(s, j, j + Len(t) - 1)) = t
                         /\ IsSpace(Char(s, j + Len(t)))
        starts == {i \in 1..n :
                     /\ IsSpace(Char(s, i))
                     /\ RunEnd(s, i) <= n
                     /\ tokenAt(RunEnd(s, i))}
    IN  IF starts = {} THEN s ELSE SubSeq(s, 1, Min(starts) - 1)

RECURSIVE JoinSplit(_)
\* " ".join(s.split()) of a string without leading white space
JoinSplit(s) ==
    LET n == Len(s)
        spaces == {i \in 1..n : IsSpace(Char(s, i))}
    IN  IF spaces = {} THEN s
        ELSE LET i == Min(spaces)
                 rest == lstrip(SubSeq(s, i, n))
             IN  IF rest = "" THEN SubSeq(s, 1, i - 1)
                 ELSE SubSeq(s, 1, i - 1) \o " " \o JoinSplit(rest)

\* enrich_artist_country._clean_name (enrich_itunes._clean_name is the same)
_clean_name(s) == JoinSplit(lstrip(SubFeat(SubParens(s))))

_norm_for_match(s) == casefold(_ascii_fold(_clean_name(s)))

_cache_key_artist(artist) == _norm_for_match(artist)


(***************************************************************************)
(* enrich_artist_country.py                                                *)
(***************************************************************************)
VARIABLES
    ac_items,      \* items: the playlist, a list of dicts
    ac_cache,      \* cache: normalised artist -> country | CACHE_MISS
    ac_limit,      \* limit (--limit)
    ac_force,      \* force (--force)
    ac_idx,        \* position of "for it in items"
    ac_enriched,   \* enriched
    ac_lookups,    \* lookups
    ac_pc,         \* "loop" | "done" (enrich_artist_country has returned)
    ac_run,        \* number of the current run of main
    ac_calls,      \* history: calls of mb_lookup_country made in this run
    ac_pauses,     \* history: time.sleep(pause_s) taken in this run
    ac_looked,     \* history: cache keys looked up in this run
    ac_items0,     \* history: items on entry of this run
    ac_cache0,     \* history: cache on entry of this run
    ac_last,       \* history: branch taken by the last loop iteration
    ac_exhausted,  \* history: some item of this run hit "lookups >= limit"
    ac_prev,       \* history: lookups/exhausted of the previous run
    ac_catalog     \* MusicBrainz: answers given so far, per queried artist

acVars == <<ac_items, ac_cache, ac_limit, ac_force, ac_idx, ac_enriched,
            ac_lookups, ac_pc, ac_run, ac_calls, ac_pauses, ac_looked,
            ac_items0, ac_cache0, ac_last, ac_exhausted, ac_prev, ac_catalog>>

VARIABLES
    ei_items,             \* items
    it_cache,             \* it_cache: "artist|title" -> meta dict | CACHE_MISS
    mb_cache,             \* mb_cache: "artist|title" -> meta dict | CACHE_MISS
    it_limit,             \* it_limit (--limit)
    mb_limit,             \* mb_limit (--mb-limit)
    ei_force,             \* force (--force)
    ei_idx,               \* position of "for it in items"
    ei_phase,             \* "itunes" | "mb" | "final" within an item, "done"
    it_lookups,           \* it_lookups
    mb_lookups,           \* mb_lookups
    changed_items,        \* changed_items
    enriched_itunes_ids,  \* enriched_itunes_ids (positions stand for id(it))
    enriched_mb_ids,      \* enriched_mb_ids
    it_calls,             \* history: calls of itunes_lookup
    mb_calls,             \* history: calls of mb_lookup_fallback
    mb_requests,          \* history: _mb_get requests sent
    ei_items0,            \* history: items on entry
    ei_last               \* history: branch taken by the last step

eiVars == <<ei_items, it_cache, mb_cache, it_limit, mb_limit, ei_force, ei_idx,
            ei_phase, it_lookups, mb_lookups, changed_items,
            enriched_itunes_ids, enriched_mb_ids, it_calls, mb_calls,
            mb_requests, ei_items0, ei_last>>

VARIABLES
    mbz_items,         \* items
    artist_map,        \* artist_map: artist -> ISO code | null
    writers_map,       \* writers_map: "artist|title" (or title) -> list | null
    mbz_limit,         \* args.limit
    writers_limit,     \* args.writers_limit
    lookups_country,   \* lookups_country
    writers_budget,    \* writers_budget[0]
    enriched_country,  \* enriched_country
    enriched_writers,  \* enriched_writers
    mbz_idx,           \* position of "for it in items"
    mbz_pc,            \* "load" | "migrate" | "country" | "writers" | "done"
                       \* | "raised"
    mbz_run,           \* number of the current run of main
    mbz_last,          \* history: branch taken by the last step
    mbz_sw_calls,      \* history: MusicBrainz calls made for songwriters
    mbz_looked_artists,\* history: artists looked up in this run
    mbz_looked_keys    \* history: writers keys looked up in this run

mbzVars == <<mbz_items, artist_map, writers_map, mbz_limit, writers_limit,
             lookups_country, writers_budget, enriched_country,
             enriched_writers, mbz_idx, mbz_pc, mbz_run, mbz_last,
             mbz_sw_calls, mbz_looked_artists, mbz_looked_keys>>

\* scraper.py: one run of main
VARIABLES
    sc_file,     \* OUT_PATH: the records of the playlist file, newest first
    sc_hosts,    \* outcome of requests.get on each of BASE_HOSTS, in order
    sc_page,     \* what parse_playlist makes of the page when one is fetched
    sc_pc,       \* "main" | "returned"
    sc_ret,      \* return value of main
    sc_added,    \* added, as merge_dedup reports it
    sc_writes,   \* history: times main has written OUT_PATH
    sc_file0     \* history: the playlist file on entry of main

scVars == <<sc_file, sc_hosts, sc_page, sc_pc, sc_ret, sc_added, sc_writes,
            sc_file0>>

\* One call of a function that reads and writes nothing but its arguments
\* and its result: a candidate scorer or a name normaliser.
VARIABLES
    fn_name,     \* the function called
    fn_arg,      \* its argument
    fn_res,      \* its result, None until it has returned
    fn_pc        \* "call" | "done"

fnVars == <<fn_name, fn_arg, fn_res, fn_pc>>

\* A run of one script leaves the state of the others alone.
ACOnly == UNCHANGED <<eiVars, mbzVars, scVars, fnVars>>

EIOnly == UNCHANGED <<acVars, mbzVars, scVars, fnVars>>

MBZOnly == UNCHANGED <<acVars, eiVars, scVars, fnVars>>

SCOnly == UNCHANGED <<acVars, eiVars, mbzVars, fnVars>>

FNOnly == UNCHANGED <<acVars, eiVars, mbzVars, scVars>>

\* Raw artist strings of the playlist: blank, two spellings of one artist,
\* and a second artist.
ArtistPool == {" ", "ABBA", "Abba (Live)", "Queen"}

\* artist_country of a record before a run: none yet (a record as the
\* scraper wrote it), the stamp of an earlier run, or a code
ACCountryInit == {Absent, NOT_FOUND, "SK"}

\* What the catalog can answer for one artist query: a code, or nothing.
ACAnswers == {None, "GB"}

\* The pure string functions, tabulated once over the strings of the model.
StripOf == [a \in ArtistPool \cup {""} |-> strip(a)]

StrippedArtists == {StripOf[a] : a \in ArtistPool}

KeyOfArtist == [a \in StrippedArtists |-> _cache_key_artist(a)]

ACKeys == {KeyOfArtist[a] : a \in StrippedArtists} \ {""}

\* it.get(k)
Get(it, k) == IF it[k] = Absent THEN None ELSE it[k]

\* cache.get(key, None)
CacheGet(c, key) == IF key \in DOMAIN c /\ c[key] # Absent THEN c[key] ELSE None

\* isinstance(v, str)
IsStr(v) == v # None /\ v # Absent

\* mb_lookup_country as seen by its caller: nothing for an empty artist,
\* otherwise what the catalog search and the scorer give (a code or None;
\* an exception of the HTTP call is caught and gives None).
mb_lookup_country(artist, answer) == IF artist = "" THEN None ELSE answer

ACItem == ac_items[ac_idx]

\* (it.get("artist") or "").strip()
ACArtist(it) == StripOf[IF Get(it, "artist") = None THEN "" ELSE it.artist]

\* Variant: the budget test lets one lookup too many through.
ACBranchMut(it, c, force, lookups, limit) ==
    LET artist == ACArtist(it)
        state  == CacheGet(c, KeyOfArtist[artist])
    IN  IF ~force /\ Get(it, "artist_country") \notin {None, "", NOT_FOUND}
        THEN "skip"
        ELSE IF artist = "" THEN "empty"
        ELSE IF state = CACHE_MISS /\ ~force THEN "miss"
        ELSE IF IsStr(state) /\ state \notin {CACHE_MISS, ""} THEN "hit"
        ELSE IF lookups > limit THEN "exhausted"
        ELSE "lookup"

\* lines 175-200 with a cached country honoured only when force is off
ACBranchMutForce(it, c, force, lookups, limit) ==
    LET artist == ACArtist(it)
        state  == CacheGet(c, KeyOfArtist[artist])
    IN  IF ~force /\ Get(it, "artist_country") \notin {None, "", NOT_FOUND}
        THEN "skip"
        ELSE IF artist = "" THEN "empty"
        ELSE IF state = CACHE_MISS /\ ~force THEN "miss"
        ELSE IF IsStr(state) /\ state \notin {CACHE_MISS, ""} /\ ~force
        THEN "hit"
        ELSE IF lookups >= limit THEN "exhausted"
        ELSE "lookup"

\* lines 175-200: the branch of the loop body an item takes
ACBranch(it, c, force, lookups, limit) ==
    LET artist == ACArtist(it)
        state  == CacheGet(c, KeyOfArtist[artist])
    IN  IF ~force /\ Get(it, "artist_country") \notin {None, "", NOT_FOUND}
        THEN "skip"
        ELSE IF artist = "" THEN "empty"
        ELSE IF state = CACHE_MISS /\ ~force THEN "miss"
        ELSE IF IsStr(state) /\ state \notin {CACHE_MISS, ""} THEN "hit"
        ELSE IF lookups >= limit THEN "exhausted"
        ELSE "lookup"

ACCur == ACBranch(ACItem, ac_cache, ac_force, ac_lookups, ac_limit)

ACInLoop == ac_pc = "loop" /\ ac_idx <= Len(ac_items)

ACSetCountry(v) == [ac_items EXCEPT ![ac_idx].artist_country = v]

ACHistSame == /\ UNCHANGED <<ac_limit, ac_force, ac_pc, ac_run, ac_items0,
                             ac_cache0, ac_prev>>
              /\ ACOnly

\* lines 175-176: already filled and not forced
\* lines 175-176 with the country of the skipped record put in the cache
ACSkipResolvedMut ==
    /\ ACInLoop /\ ACCur = "skip"
    /\ ac_idx' = ac_idx + 1
    /\ ac_last' = "skip"
    /\ ac_cache' = (IF ACArtist(ACItem) = "" THEN ac_cache
                    ELSE [ac_cache EXCEPT ![KeyOfArtist[ACArtist(ACItem)]] =
                                              ACItem.artist_country])
    /\ ACHistSame
    /\ UNCHANGED <<ac_items, ac_enriched, ac_lookups, ac_calls, ac_pauses,
                   ac_looked, ac_exhausted, ac_catalog>>

ACSkipResolved ==
    /\ ACInLoop /\ ACCur = "skip"
    /\ ac_idx' = ac_idx + 1
    /\ ac_last' = "skip"
    /\ ACHistSame
    /\ UNCHANGED <<ac_items, ac_cache, ac_enriched, ac_lookups, ac_calls, ac_pauses,
                   ac_looked, ac_exhausted, ac_catalog>>

\* lines 178-181: no artist
ACEmptyArtist ==
    /\ ACInLoop /\ ACCur = "empty"
    /\ ac_items' = ACSetCountry(NOT_FOUND)
    /\ ac_idx' = ac_idx + 1
    /\ ac_last' = "empty"
    /\ ACHistSame
    /\ UNCHANGED <<ac_cache, ac_enriched, ac_lookups, ac_calls, ac_pauses, ac_looked,
                   ac_exhausted, ac_catalog>>

\* lines 187-189: a known miss is not looked up again
ACCacheMiss ==
    /\ ACInLoop /\ ACCur = "miss"
    /\ ac_items' = ACSetCountry(NOT_FOUND)
    /\ ac_idx' = ac_idx + 1
    /\ ac_last' = "miss"
    /\ ACHistSame
    /\ UNCHANGED <<ac_cache, ac_enriched, ac_lookups, ac_calls, ac_pauses, ac_looked,
                   ac_exhausted, ac_catalog>>

\* lines 192-194 with the record stamped "Not found" in place of the
\* cached country
ACCacheHitMut ==
    /\ ACInLoop /\ ACCur = "hit"
    /\ ac_items' = ACSetCountry(NOT_FOUND)
    /\ ac_idx' = ac_idx + 1
    /\ ac_last' = "hit"
    /\ ACHistSame
    /\ UNCHANGED <<ac_cache, ac_enriched, ac_lookups, ac_calls, ac_pauses, ac_looked,
                   ac_exhausted, ac_catalog>>

\* lines 192-194: a cached country is used
ACCacheHit ==
    /\ ACInLoop /\ ACCur = "hit"
    /\ ac_items' = ACSetCountry(
                      CacheGet(ac_cache, KeyOfArtist[ACArtist(ACItem)]))
    /\ ac_idx' = ac_idx + 1
    /\ ac_last' = "hit"
    /\ ACHistSame
    /\ UNCHANGED <<ac_cache, ac_enriched, ac_lookups, ac_calls, ac_pauses, ac_looked,
                   ac_exhausted, ac_catalog>>

\* Variant: the skipped artist is remembered as a miss.
ACBudgetExhaustedMut ==
    /\ ACInLoop /\ ACCur = "exhausted"
    /\ ac_items' = ACSetCountry(NOT_FOUND)
    /\ ac_cache' = [ac_cache EXCEPT ![KeyOfArtist[ACArtist(ACItem)]] = CACHE_MISS]
    /\ ac_idx' = ac_idx + 1
    /\ ac_last' = "exhausted"
    /\ ac_exhausted' = TRUE
    /\ ACHistSame
    /\ UNCHANGED <<ac_enriched, ac_lookups, ac_calls, ac_pauses, ac_looked, ac_catalog>>

\* lines 197-200: the budget is used up
ACBudgetExhausted ==
    /\ ACInLoop /\ ACCur = "exhausted"
    /\ ac_items' = ACSetCountry(NOT_FOUND)
    /\ ac_idx' = ac_idx + 1
    /\ ac_last' = "exhausted"
    /\ ac_exhausted' = TRUE
    /\ ACHistSame
    /\ UNCHANGED <<ac_cache, ac_enriched, ac_lookups, ac_calls, ac_pauses, ac_looked,
                   ac_catalog>>

\* The cache and item writes after a lookup (lines 206-213).
\* Variant: an unsuccessful lookup is not remembered in the cache.
ACAfterLookupMut(key, country) ==
    IF country # None /\ country # ""
    THEN /\ ac_cache' = [ac_cache EXCEPT ![key] = country]
         /\ ac_items' = ACSetCountry(country)
         /\ ac_enriched' = ac_enriched + 1
    ELSE /\ ac_cache' = ac_cache
         /\ ac_items' = ACSetCountry(NOT_FOUND)
         /\ ac_enriched' = ac_enriched

ACAfterLookup(key, country) ==
    IF country # None /\ country # ""
    THEN /\ ac_cache' = [ac_cache EXCEPT ![key] = country]
         /\ ac_items' = ACSetCountry(country)
         /\ ac_enriched' = ac_enriched + 1
    ELSE /\ ac_cache' = [ac_cache EXCEPT ![key] = CACHE_MISS]
         /\ ac_items' = ACSetCountry(NOT_FOUND)
         /\ ac_enriched' = ac_enriched

\* lines 202-213: one outbound lookup, counted, followed by the pause
\* time.sleep(pause_s) of line 204, then cached
ACLookup ==
    /\ ACInLoop /\ ACCur = "lookup"
    /\ LET artist == ACArtist(ACItem)
           key    == KeyOfArtist[artist]
       IN  \E answer \in (IF ac_catalog[artist] = Absent
                          THEN ACAnswers ELSE {ac_catalog[artist]}) :
             /\ ac_catalog' = [ac_catalog EXCEPT ![artist] = answer]
             /\ ac_calls' = ac_calls + 1
             /\ ac_pauses' = ac_pauses + 1
             /\ ac_looked' = ac_looked \cup {key}
             /\ ac_lookups' = ac_lookups + 1
             /\ ACAfterLookup(key, mb_lookup_country(artist, answer))
    /\ ac_idx' = ac_idx + 1
    /\ ac_last' = "lookup"
    /\ ACHistSame
    /\ UNCHANGED ac_exhausted

\* The ways the HTTP call of mb_lookup_country fails inside its try block
\* (lines 119-124): the request times out, raise_for_status rejects the
\* status, or the body is not JSON.  Each is caught and gives None.
ACTransport == {"timeout", "status", "not_json"}

\* lines 202-213 with lines 119-124: the lookup fails at transport level
ACLookupFails ==
    /\ ACInLoop /\ ACCur = "lookup"
    /\ \E failure \in ACTransport :
         /\ ac_last' = failure
         /\ ACAfterLookup(KeyOfArtist[ACArtist(ACItem)],
                          mb_lookup_country(ACArtist(ACItem), None))
    /\ ac_calls' = ac_calls + 1
    /\ ac_pauses' = ac_pauses + 1
    /\ ac_looked' = ac_looked \cup {KeyOfArtist[ACArtist(ACItem)]}
    /\ ac_lookups' = ac_lookups + 1
    /\ ac_idx' = ac_idx + 1
    /\ ACHistSame
    /\ UNCHANGED <<ac_exhausted, ac_catalog>>

\* lines 126-153 outside the try block: the body is JSON of another shape
\* than an object with a list of artist objects (null, a list,
\* {"artists": null}): data.get or the loop raises, nothing catches it in
\* enrich_artist_country (line 202) or main, and the run ends before
\* lookups += 1, before the pause of line 204 and before anything is
\* written.
ACLookupRaises ==
    /\ ACInLoop /\ ACCur = "lookup"
    /\ ac_pc' = "raised"
    /\ ac_calls' = ac_calls + 1
    /\ ac_last' = "not_object"
    /\ UNCHANGED <<ac_items, ac_cache, ac_limit, ac_force, ac_idx, ac_enriched,
                   ac_lookups, ac_run, ac_pauses, ac_looked, ac_items0,
                   ac_cache0, ac_exhausted, ac_prev, ac_catalog>>
    /\ ACOnly

\* line 215: return enriched, lookups
ACReturn ==
    /\ ac_pc = "loop" /\ ac_idx > Len(ac_items)
    /\ ac_pc' = "done"
    /\ ac_last' = "return"
    /\ UNCHANGED <<ac_items, ac_cache, ac_limit, ac_force, ac_idx, ac_enriched,
                   ac_lookups, ac_run, ac_calls, ac_pauses, ac_looked,
                   ac_items0, ac_cache0, ac_exhausted, ac_prev, ac_catalog>>
    /\ ACOnly

\* main, lines 230-247, run again: the playlist and the cache written by
\* the previous run are loaded and enrich_artist_country is called with
\* the same limit and force.
ACRunAgain ==
    /\ ac_pc = "done" /\ ac_run < MaxRuns
    /\ ac_run' = ac_run + 1
    /\ ac_pc' = "loop"
    /\ ac_idx' = 1
    /\ ac_enriched' = 0
    /\ ac_lookups' = 0
    /\ ac_calls' = 0
    /\ ac_pauses' = 0
    /\ ac_looked' = {}
    /\ ac_items0' = ac_items
    /\ ac_cache0' = ac_cache
    /\ ac_exhausted' = FALSE
    /\ ac_prev' = [lookups |-> ac_lookups, exhausted |-> ac_exhausted]
    /\ ac_last' = "start"
    /\ UNCHANGED <<ac_items, ac_cache, ac_limit, ac_force, ac_catalog>>
    /\ ACOnly

ACInit ==
    /\ ac_items \in UNION {[1..n -> [artist : ArtistPool,
                                     artist_country : ACCountryInit]]
                           : n \in 0..MaxItems}
    /\ ac_cache \in [ACKeys -> {Absent, CACHE_MISS, "GB"}]
    /\ ac_limit \in 0..MaxLimit
    /\ ac_force \in BOOLEAN
    /\ ac_idx = 1
    /\ ac_enriched = 0
    /\ ac_lookups = 0
    /\ ac_pc = "loop"
    /\ ac_run = 1
    /\ ac_calls = 0
    /\ ac_pauses = 0
    /\ ac_looked = {}
    /\ ac_items0 = ac_items
    /\ ac_cache0 = ac_cache
    /\ ac_last = "start"
    /\ ac_exhausted = FALSE
    /\ ac_prev = [lookups |-> 0, exhausted |-> FALSE]
    /\ ac_catalog = [a \in StrippedArtists |-> Absent]

ACNext ==
    \/ ACSkipResolved
    \/ ACEmptyArtist
    \/ ACCacheMiss
    \/ ACCacheHit
    \/ ACBudgetExhausted
    \/ ACLookup
    \/ ACLookupFails
    \/ ACLookupRaises
    \/ ACReturn
    \/ ACRunAgain

(***************************************************************************)
(* enrich_itunes.py                                                        *)
(*                                                                         *)
(* Numbers (year, duration_ms, track_number, MusicBrainz ids) are written  *)
(* as the strings of their digits.  A cache entry, and the result of a     *)
(* lookup, is a tagged value: PyAbsent / PyNone, PyStr(s) or PyDict(d).    *)
(***************************************************************************)
PyAbsent  == [py |-> "absent"]
PyNone    == [py |-> "none"]
PyStr(s)  == [py |-> "str", s |-> s]
PyDict(d) == [py |-> "dict", d |-> d]

\* enrich_itunes.py:114
META_KEYS == <<"year", "duration_ms", "genre", "album", "track_number">>

MetaKeySet == {META_KEYS[i] : i \in 1..Len(META_KEYS)}

EIFields == MetaKeySet \cup {"artist_country_code"}

Digits == "0123456789"

\* str.isdigit()
isdigit(s) == Len(s) > 0 /\ \A i \in 1..Len(s) : IndexIn(Char(s, i), Digits) > 0

RECURSIVE int(_)
\* int(s) of a string of digits.  A number is written in the model as JSON
\* writes it, in decimal without leading zeros.
int(s) ==
    IF Len(s) > 1 /\ Char(s, 1) = "0" THEN int(SubSeq(s, 2, Len(s))) ELSE s

\* s[:n]
Prefix(s, n) == SubSeq(s, 1, IF Len(s) < n THEN Len(s) ELSE n)

\* meta.get(k) of a dict
DictGet(d, k) == IF k \in DOMAIN d /\ d[k] # Absent THEN d[k] ELSE None

\* "v or NOT_FOUND"
OrNotFound(v) == IF v = None \/ v = "" THEN NOT_FOUND ELSE v

\* "v if v is not None else NOT_FOUND"
NoneToNotFound(v) == IF v = None THEN NOT_FOUND ELSE v

_cache_key(artist, title) == _norm_for_match(artist) \o "|" \o _norm_for_match(title)

\* lines 116-121
_has_all_meta(it) == \A k \in MetaKeySet : Get(it, k) \notin {None, "", NOT_FOUND}

\* lines 123-126
_apply_not_found(item) ==
    [k \in DOMAIN item |->
        IF k \in MetaKeySet /\ Get(item, k) \in {None, ""} THEN NOT_FOUND
        ELSE item[k]]

\* dict.setdefault(k, v)
setdefault(item, k, v) == IF item[k] = Absent THEN [item EXCEPT ![k] = v] ELSE item

\* A key of _update_if_missing is written when the current value is
\* empty or "Not found" and the fetched one is not empty.
UpdWrites(item, meta, k) ==
    /\ Get(item, k) \in {None, "", NOT_FOUND}
    /\ DictGet(meta, k) \notin {None, ""}

\* Variant: every fetched value is written, whatever the current one.
_update_if_missingMut(item, meta, keys) ==
    [item |-> [k \in DOMAIN item |->
                 IF k \in keys /\ DictGet(meta, k) \notin {None, ""}
                 THEN DictGet(meta, k) ELSE item[k]],
     changed |-> \E k \in keys : DictGet(meta, k) \notin {None, ""},
     changed_real |-> \E k \in keys :
                         DictGet(meta, k) \notin {None, "", NOT_FOUND}]

\* Variant: a written "Not found" counts as a real value.
_update_if_missingMutReal(item, meta, keys) ==
    [item |-> [k \in DOMAIN item |->
                 IF k \in keys /\ UpdWrites(item, meta, k)
                 THEN DictGet(meta, k) ELSE item[k]],
     changed |-> \E k \in keys : UpdWrites(item, meta, k),
     changed_real |-> \E k \in keys : UpdWrites(item, meta, k)]

\* lines 128-144: (item after the call, changed_any, changed_real)
_update_if_missing(item, meta, keys) ==
    [item |-> [k \in DOMAIN item |->
                 IF k \in keys /\ UpdWrites(item, meta, k)
                 THEN DictGet(meta, k) ELSE item[k]],
     changed |-> \E k \in keys : UpdWrites(item, meta, k),
     changed_real |-> \E k \in keys :
                         UpdWrites(item, meta, k) /\ DictGet(meta, k) # NOT_FOUND]

(***************************************************************************)
(* iTunes: the accepted candidate ("best") of a search, or no match.       *)
(***************************************************************************)
ITNoMatch == [match |-> FALSE]

ITBestFull ==
    [match |-> TRUE, trackTimeMillis |-> "164000",
     releaseDate |-> "1974-03-04T12:00:00Z", primaryGenreName |-> "Pop",
     collectionName |-> "Waterloo", trackNumber |-> "1", trackId |-> "14226"]

ITBestSparse ==
    [match |-> TRUE, trackTimeMillis |-> None, releaseDate |-> None,
     primaryGenreName |-> "Pop", collectionName |-> "", trackNumber |-> None,
     trackId |-> None]

\* A match that carries none of the optional fields
ITBestEmpty ==
    [match |-> TRUE, trackTimeMillis |-> None, releaseDate |-> None,
     primaryGenreName |-> None, collectionName |-> None, trackNumber |-> None,
     trackId |-> None]

ITAnswers == {ITNoMatch, ITBestFull, ITBestSparse, ITBestEmpty}

\* lines 184-198: the meta dict itunes_lookup builds from the best candidate
ItunesMeta(best) ==
    LET rel_year == Prefix(IF best.releaseDate = None THEN ""
                           ELSE best.releaseDate, 4)
        year_val == IF isdigit(rel_year) THEN int(rel_year) ELSE None
    IN  [year |-> NoneToNotFound(year_val),
         duration_ms |-> NoneToNotFound(best.trackTimeMillis),
         genre |-> OrNotFound(best.primaryGenreName),
         album |-> OrNotFound(best.collectionName),
         track_number |-> NoneToNotFound(best.trackNumber),
         itunes_track_id |-> best.trackId]

\* lines 147-198; answer is what the search and the scorer leave: the best
\* candidate when its score reaches the threshold, no match otherwise (an
\* HTTP error is caught and gives no match).
ItunesResult(answer) ==
    IF ~answer.match THEN PyNone ELSE PyDict(ItunesMeta(answer))

\* ItunesResult, tabulated once over the answers of the model
ItunesResultOf == [a \in ITAnswers |-> ItunesResult(a)]

itunes_lookup(artist, title, answer) ==
    IF artist = "" \/ title = "" THEN PyNone ELSE ItunesResultOf[answer]

(***************************************************************************)
(* MusicBrainz fallback.  A world is what the three endpoints answer:      *)
(*   recordings  the recording search (None: the request failed)           *)
(*   release     release/{id}         (None: the request failed)           *)
(*   artist      artist/{id}          (None: the request failed)           *)
(***************************************************************************)
Nothing == [found |-> FALSE]

MBRecFull ==
    [found |-> TRUE, id |-> "r1", score |-> 100, length |-> "165000",
     genre |-> "europop",
     releases |-> << [found |-> TRUE, id |-> "rel2", title |-> "Gold",
                      date |-> "1992-09-21"],
                     [found |-> TRUE, id |-> "rel1", title |-> "Waterloo LP",
                      date |-> "1974"] >>,
     artist_mbid |-> "a1"]

MBRecBare ==
    [found |-> TRUE, id |-> "r2", score |-> 80, length |-> "170000",
     genre |-> None, releases |-> << >>, artist_mbid |-> None]

MBRecLow ==
    [found |-> TRUE, id |-> "r3", score |-> 60, length |-> None,
     genre |-> None, releases |-> << >>, artist_mbid |-> None]

MBWorldFull ==
    [search_ok |-> TRUE, recordings |-> <<MBRecLow, MBRecFull>>,
     release_ok |-> TRUE,
     tracks |-> << [found |-> TRUE, recording |-> "r0", length |-> "1",
                    position |-> "1"],
                   [found |-> TRUE, recording |-> "r1", length |-> "166000",
                    position |-> "2"] >>,
     artist_ok |-> TRUE, area |-> None, begin_area |-> "SE"]

MBWorldBare ==
    [search_ok |-> TRUE, recordings |-> <<MBRecBare>>, release_ok |-> FALSE,
     tracks |-> << >>, artist_ok |-> FALSE, area |-> None, begin_area |-> None]

MBWorldLow ==
    [search_ok |-> TRUE, recordings |-> <<MBRecLow>>, release_ok |-> FALSE,
     tracks |-> << >>, artist_ok |-> FALSE, area |-> None, begin_area |-> None]

MBWorldDown ==
    [search_ok |-> FALSE, recordings |-> << >>, release_ok |-> FALSE,
     tracks |-> << >>, artist_ok |-> FALSE, area |-> None, begin_area |-> None]

MBWorlds == {MBWorldFull, MBWorldBare, MBWorldLow, MBWorldDown}

\* max(recs, key=score): the first recording with the highest score
MaxByScore(recs) ==
    LET best == {i \in 1..Len(recs) : \A j \in 1..Len(recs) : recs[j].score <= recs[i].score}
    IN  recs[Min(best)]

\* lines 219-234: (recording or Nothing, _mb_get requests made)
mb_search_recording(world) ==
    IF ~world.search_ok THEN [rec |-> Nothing, requests |-> 1]
    ELSE IF Len(world.recordings) = 0 THEN [rec |-> Nothing, requests |-> 1]
    ELSE IF MaxByScore(world.recordings).score < 70 THEN [rec |-> Nothing, requests |-> 1]
    ELSE [rec |-> MaxByScore(world.recordings), requests |-> 1]

\* The number a string of digits spells.
RECURSIVE StrToNat(_)
StrToNat(s) ==
    IF Len(s) = 0 THEN 0
    ELSE 10 * StrToNat(SubSeq(s, 1, Len(s) - 1)) + (IndexIn(Char(s, Len(s)), Digits) - 1)

\* s.split("-")
RECURSIVE SplitDash(_)
SplitDash(s) ==
    LET dashes == {i \in 1..Len(s) : Char(s, i) = "-"}
    IN  IF dashes = {} THEN <<s>>
        ELSE <<SubSeq(s, 1, Min(dashes) - 1)>>
             \o SplitDash(SubSeq(s, Min(dashes) + 1, Len(s)))

\* lines 236-247
_parse_date_tuple(s) ==
    IF s = None \/ s = "" THEN <<9999, 12, 31>>
    ELSE LET parts == SubSeq(SplitDash(s) \o <<"12", "31">>, 1, 3)
         IN  << IF isdigit(parts[1]) THEN StrToNat(parts[1]) ELSE 9999,
                IF isdigit(parts[2]) THEN StrToNat(parts[2]) ELSE 12,
                IF isdigit(parts[3]) THEN StrToNat(parts[3]) ELSE 31 >>

\* tuple comparison a <= b
TupleLeq(a, b) ==
    \/ a[1] < b[1]
    \/ a[1] = b[1] /\ a[2] < b[2]
    \/ a[1] = b[1] /\ a[2] = b[2] /\ a[3] <= b[3]

\* lines 249-254: the first release of the stable sort by date
_mb_pick_earliest_release(recording) ==
    LET rs == recording.releases
        key(i) == _parse_date_tuple(rs[i].date)
        firsts == {i \in 1..Len(rs) : \A j \in 1..Len(rs) : TupleLeq(key(i), key(j))}
    IN  IF Len(rs) = 0 THEN Nothing ELSE rs[Min(firsts)]

\* lines 261-273; area and begin_area are the first ISO code of the area,
\* None when there is no area or it has no code
mb_fetch_artist_area_code(world) ==
    IF ~world.artist_ok THEN NOT_FOUND
    ELSE IF world.area \notin {None, ""} THEN world.area
    ELSE IF world.begin_area \notin {None, ""} THEN world.begin_area
    ELSE NOT_FOUND

\* lines 312-328: the track of the release detail that is the recording
MBTrackOf(world, rec, release_id) ==
    LET hits == {i \in 1..Len(world.tracks) : world.tracks[i].recording = rec.id}
    IN  IF release_id \in {None, ""} \/ ~world.release_ok \/ hits = {}
        THEN Nothing
        ELSE world.tracks[Min(hits)]

\* lines 298-346: the meta dict built from an accepted recording
MBMeta(world, rec) ==
    LET earliest == _mb_pick_earliest_release(rec)
        album == IF earliest.found THEN earliest.title ELSE None
        date == IF earliest.found /\ earliest.date # None THEN earliest.date ELSE ""
        year == IF date = "" THEN None ELSE Prefix(date, 4)
        release_id == IF earliest.found THEN earliest.id ELSE None
        track == MBTrackOf(world, rec, release_id)
        length_ms == IF track.found /\ track.length # None THEN track.length
                     ELSE rec.length
        track_number == IF track.found THEN track.position ELSE None
        code == IF rec.artist_mbid \in {None, ""} THEN NOT_FOUND
                ELSE mb_fetch_artist_area_code(world)
    IN  [album |-> OrNotFound(album),
         year |-> IF year # None /\ isdigit(year) THEN int(year) ELSE NOT_FOUND,
         duration_ms |-> NoneToNotFound(length_ms),
         genre |-> OrNotFound(rec.genre),
         track_number |-> NoneToNotFound(track_number),
         artist_country_code |-> OrNotFound(code)]

\* _mb_get requests of one mb_lookup_fallback: the search, the release
\* detail when the earliest release has an id, the artist when the
\* recording credits one.
MBRequests(rec) ==
    LET earliest == _mb_pick_earliest_release(rec)
    IN  1 + (IF earliest.found /\ earliest.id \notin {None, ""} THEN 1 ELSE 0)
          + (IF rec.artist_mbid \notin {None, ""} THEN 1 ELSE 0)

\* lines 289-346: (meta dict or None, _mb_get requests made)
MBFallback(world) ==
    LET found == mb_search_recording(world)
    IN  IF ~found.rec.found THEN [meta |-> PyNone, requests |-> found.requests]
        ELSE [meta |-> PyDict(MBMeta(world, found.rec)),
              requests |-> MBRequests(found.rec)]

\* MBFallback, tabulated once over the worlds of the model
MBFallbackOf == [w \in MBWorlds |-> MBFallback(w)]

mb_lookup_fallback(artist, title, world) == MBFallbackOf[world]

\* (artist, title) of the playlist records: one song, and one without title.
EIIdentities == {<<"ABBA", "Waterloo (Live)">>, <<"ABBA", " ">>}

\* The enrichable fields of a record before a run.
EIBlank ==
    [year |-> Absent, duration_ms |-> Absent, genre |-> Absent,
     album |-> Absent, track_number |-> Absent, artist_country_code |-> Absent]

EIOld ==
    [year |-> "1999", duration_ms |-> "1000", genre |-> "Rock",
     album |-> "Old Album", track_number |-> "9", artist_country_code |-> "SK"]

EINotFound ==
    [year |-> NOT_FOUND, duration_ms |-> NOT_FOUND, genre |-> NOT_FOUND,
     album |-> NOT_FOUND, track_number |-> NOT_FOUND,
     artist_country_code |-> NOT_FOUND]

EIMixed ==
    [year |-> "1999", duration_ms |-> None, genre |-> "",
     album |-> NOT_FOUND, track_number |-> Absent, artist_country_code |-> None]

EITemplates == {EIBlank, EIOld, EINotFound, EIMixed}

EIRecord(id, t) ==
    [artist |-> id[1], title |-> id[2], year |-> t.year,
     duration_ms |-> t.duration_ms, genre |-> t.genre, album |-> t.album,
     track_number |-> t.track_number,
     artist_country_code |-> t.artist_country_code]

EIRecords == {EIRecord(id, t) : id \in EIIdentities, t \in EITemplates}

EIStrings == UNION {{id[1], id[2]} : id \in EIIdentities}

EIStripOf == [x \in EIStrings |-> strip(x)]

EIKeyOf == [id \in EIIdentities |-> _cache_key(EIStripOf[id[1]], EIStripOf[id[2]])]

EIKeys == {EIKeyOf[id] : id \in {d \in EIIdentities :
                                   EIStripOf[d[1]] # "" /\ EIStripOf[d[2]] # ""}}

EIItem == ei_items[ei_idx]

\* (it.get("artist") or "").strip(), (it.get("title") or "").strip()
EIArtist(it) == EIStripOf[it.artist]
EITitle(it) == EIStripOf[it.title]

\* _cache_key(artist, title) of the stripped names of a record
EIKey(it) == EIKeyOf[<<it.artist, it.title>>]

MissEntry == PyStr(CACHE_MISS)

\* Variant: a remembered miss is looked up again.
EIItunesBranchMut(it, state, force, lookups, limit) ==
    IF ~(force \/ ~_has_all_meta(it)) THEN "it_notneeded"
    ELSE IF state.py # "dict" \/ force
         THEN (IF lookups < limit THEN "it_lookup" ELSE "it_overlimit")
    ELSE "it_cached"

\* lines 378-407: the branch of the iTunes phase
EIItunesBranch(it, state, force, lookups, limit) ==
    IF ~(force \/ ~_has_all_meta(it)) THEN "it_notneeded"
    ELSE IF state = MissEntry /\ ~force THEN "it_miss"
    ELSE IF state.py \in {"absent", "none"} \/ force
         THEN (IF lookups < limit THEN "it_lookup" ELSE "it_overlimit")
    ELSE "it_cached"

\* lines 410-446: the branch of the MusicBrainz phase
EIMbBranch(it, state, force, lookups, limit) ==
    LET still_missing == \E k \in MetaKeySet : Get(it, k) \in {None, "", NOT_FOUND}
        need_country_code == Get(it, "artist_country_code") \in {None, "", NOT_FOUND}
    IN  IF ~(still_missing \/ need_country_code \/ force) THEN "mb_notneeded"
        ELSE IF state = MissEntry /\ ~force THEN "mb_miss"
        ELSE IF state.py \in {"absent", "none"} \/ force
             THEN (IF lookups < limit THEN "mb_lookup" ELSE "mb_overlimit")
        ELSE "mb_cached"

EIReady(phase) ==
    /\ ei_phase = phase /\ ei_idx <= Len(ei_items)
    /\ EIArtist(EIItem) # "" /\ EITitle(EIItem) # ""

EIItCur == EIItunesBranch(EIItem, it_cache[EIKey(EIItem)], ei_force,
                          it_lookups, it_limit)

EIMbCur == EIMbBranch(EIItem, mb_cache[EIKey(EIItem)], ei_force,
                      mb_lookups, mb_limit)

EISetItem(v) == [ei_items EXCEPT ![ei_idx] = v]

EIConst == UNCHANGED <<it_limit, mb_limit, ei_force, ei_items0>> /\ EIOnly

EIItSame == UNCHANGED <<it_cache, it_lookups, it_calls>>

EIMbSame == UNCHANGED <<mb_cache, mb_lookups, mb_calls, mb_requests>>

\* lines 368-373: no artist or no title
EIReject ==
    /\ ei_phase = "itunes" /\ ei_idx <= Len(ei_items)
    /\ EIArtist(EIItem) = "" \/ EITitle(EIItem) = ""
    /\ ei_items' = EISetItem(setdefault(_apply_not_found(EIItem),
                                        "artist_country_code", NOT_FOUND))
    /\ ei_idx' = ei_idx + 1
    /\ ei_last' = "reject"
    /\ EIConst /\ EIItSame /\ EIMbSame
    /\ UNCHANGED <<ei_phase, changed_items, enriched_itunes_ids, enriched_mb_ids>>

\* lines 378-384, 399: nothing is fetched and nothing written
EIItunesPass ==
    /\ EIReady("itunes")
    /\ EIItCur \in {"it_notneeded", "it_miss", "it_overlimit"}
    /\ ei_phase' = "mb"
    /\ ei_last' = EIItCur
    /\ EIConst /\ EIItSame /\ EIMbSame
    /\ UNCHANGED <<ei_items, ei_idx, changed_items, enriched_itunes_ids,
                   enriched_mb_ids>>

\* lines 392-396 and 403-407: the merge of an iTunes meta dict
EIMergeItunes(meta) ==
    LET upd == _update_if_missing(EIItem, meta, MetaKeySet)
    IN  /\ ei_items' = EISetItem(upd.item)
        /\ changed_items' = changed_items + (IF upd.changed THEN 1 ELSE 0)
        /\ enriched_itunes_ids' = IF upd.changed_real
                                  THEN enriched_itunes_ids \cup {ei_idx}
                                  ELSE enriched_itunes_ids

\* lines 385-398: one iTunes lookup
EIItunesLookup ==
    /\ EIReady("itunes") /\ EIItCur = "it_lookup"
    /\ \E answer \in ITAnswers :
         LET meta == itunes_lookup(EIArtist(EIItem), EITitle(EIItem), answer)
         IN  IF meta.py = "dict"
             THEN /\ it_cache' = [it_cache EXCEPT ![EIKey(EIItem)] = meta]
                  /\ EIMergeItunes(meta.d)
             ELSE /\ it_cache' = [it_cache EXCEPT ![EIKey(EIItem)] = MissEntry]
                  /\ UNCHANGED <<ei_items, changed_items, enriched_itunes_ids>>
    /\ it_lookups' = it_lookups + 1
    /\ it_calls' = it_calls + 1
    /\ ei_phase' = "mb"
    /\ ei_last' = "it_lookup"
    /\ EIConst /\ EIMbSame
    /\ UNCHANGED <<ei_idx, enriched_mb_ids>>

\* lines 400-407: the meta dict of the cache is merged
EIItunesCached ==
    /\ EIReady("itunes") /\ EIItCur = "it_cached"
    /\ IF it_cache[EIKey(EIItem)] # MissEntry
       THEN EIMergeItunes(it_cache[EIKey(EIItem)].d)
       ELSE UNCHANGED <<ei_items, changed_items, enriched_itunes_ids>>
    /\ ei_phase' = "mb"
    /\ ei_last' = "it_cached"
    /\ EIConst /\ EIItSame /\ EIMbSame
    /\ UNCHANGED <<ei_idx, enriched_mb_ids>>

\* line 413 false: MusicBrainz is not needed
EIMbNotNeeded ==
    /\ EIReady("mb") /\ EIMbCur = "mb_notneeded"
    /\ ei_phase' = "final"
    /\ ei_last' = "mb_notneeded"
    /\ EIConst /\ EIItSame /\ EIMbSame
    /\ UNCHANGED <<ei_items, ei_idx, changed_items, enriched_itunes_ids,
                   enriched_mb_ids>>

\* lines 417-418 and 436-437: a known miss, or no budget left
EIMbPass ==
    /\ EIReady("mb") /\ EIMbCur \in {"mb_miss", "mb_overlimit"}
    /\ ei_items' = EISetItem(setdefault(EIItem, "artist_country_code", NOT_FOUND))
    /\ ei_phase' = "final"
    /\ ei_last' = EIMbCur
    /\ EIConst /\ EIItSame /\ EIMbSame
    /\ UNCHANGED <<ei_idx, changed_items, enriched_itunes_ids, enriched_mb_ids>>

\* lines 425-432 and 441-446 with the MusicBrainz values written over
\* what the record already holds
EIMergeMbMut(meta) ==
    LET a == _update_if_missingMut(EIItem, meta, MetaKeySet)
        b == _update_if_missingMut(a.item, meta, {"artist_country_code"})
    IN  /\ ei_items' = EISetItem(b.item)
        /\ changed_items' = changed_items
                            + (IF a.changed \/ b.changed THEN 1 ELSE 0)
        /\ enriched_mb_ids' = IF a.changed_real \/ b.changed_real
                              THEN enriched_mb_ids \cup {ei_idx}
                              ELSE enriched_mb_ids

\* lines 425-432 and 441-446: the merge of a MusicBrainz meta dict
EIMergeMb(meta) ==
    LET a == _update_if_missing(EIItem, meta, MetaKeySet)
        b == _update_if_missing(a.item, meta, {"artist_country_code"})
    IN  /\ ei_items' = EISetItem(b.item)
        /\ changed_items' = changed_items
                            + (IF a.changed \/ b.changed THEN 1 ELSE 0)
        /\ enriched_mb_ids' = IF a.changed_real \/ b.changed_real
                              THEN enriched_mb_ids \cup {ei_idx}
                              ELSE enriched_mb_ids

\* lines 419-435: one mb_lookup_fallback, counted once
EIMbLookup ==
    /\ EIReady("mb") /\ EIMbCur = "mb_lookup"
    /\ \E world \in MBWorlds :
         LET r == mb_lookup_fallback(EIArtist(EIItem), EITitle(EIItem), world)
         IN  /\ mb_requests' = mb_requests + r.requests
             /\ IF r.meta.py = "dict"
                THEN /\ mb_cache' = [mb_cache EXCEPT ![EIKey(EIItem)] = r.meta]
                     /\ EIMergeMb(r.meta.d)
                ELSE /\ mb_cache' = [mb_cache EXCEPT ![EIKey(EIItem)] = MissEntry]
                     /\ ei_items' = EISetItem(setdefault(EIItem,
                                         "artist_country_code", NOT_FOUND))
                     /\ UNCHANGED <<changed_items, enriched_mb_ids>>
    /\ mb_lookups' = mb_lookups + 1
    /\ mb_calls' = mb_calls + 1
    /\ ei_phase' = "final"
    /\ ei_last' = "mb_lookup"
    /\ EIConst /\ EIItSame
    /\ UNCHANGED <<ei_idx, enriched_itunes_ids>>

\* lines 438-446: the meta dict of the cache is merged
EIMbCached ==
    /\ EIReady("mb") /\ EIMbCur = "mb_cached"
    /\ IF mb_cache[EIKey(EIItem)] # MissEntry
       THEN EIMergeMb(mb_cache[EIKey(EIItem)].d)
       ELSE UNCHANGED <<ei_items, changed_items, enriched_mb_ids>>
    /\ ei_phase' = "final"
    /\ ei_last' = "mb_cached"
    /\ EIConst /\ EIItSame /\ EIMbSame
    /\ UNCHANGED <<ei_idx, enriched_itunes_ids>>

\* lines 448-457: placeholders for what is still missing
EIFinal ==
    /\ EIReady("final")
    /\ LET applied == IF ~_has_all_meta(EIItem) THEN _apply_not_found(EIItem)
                      ELSE EIItem
           differs == \E k \in MetaKeySet : Get(EIItem, k) # Get(applied, k)
       IN  /\ ei_items' = EISetItem(setdefault(applied, "artist_country_code",
                                               NOT_FOUND))
           /\ changed_items' = changed_items + (IF differs THEN 1 ELSE 0)
    /\ ei_idx' = ei_idx + 1
    /\ ei_phase' = "itunes"
    /\ ei_last' = "final"
    /\ EIConst /\ EIItSame /\ EIMbSame
    /\ UNCHANGED <<enriched_itunes_ids, enriched_mb_ids>>

\* line 459
EIReturn ==
    /\ ei_phase = "itunes" /\ ei_idx > Len(ei_items)
    /\ ei_phase' = "done"
    /\ ei_last' = "return"
    /\ EIConst /\ EIItSame /\ EIMbSame
    /\ UNCHANGED <<ei_items, ei_idx, changed_items, enriched_itunes_ids,
                   enriched_mb_ids>>

EICachedItunes == PyDict(ItunesMeta(ITBestFull))

EICachedMb == PyDict(MBMeta(MBWorldFull, MBRecFull))

EIInit ==
    /\ ei_items \in UNION {[1..n -> EIRecords] : n \in 0..MaxItems}
    /\ it_cache \in [EIKeys -> {PyAbsent, MissEntry, EICachedItunes}]
    /\ mb_cache \in [EIKeys -> {PyAbsent, MissEntry, EICachedMb}]
    /\ it_limit \in 0..EIMaxLimit
    /\ mb_limit \in 0..EIMaxLimit
    /\ ei_force \in BOOLEAN
    /\ ei_idx = 1
    /\ ei_phase = "itunes"
    /\ it_lookups = 0
    /\ mb_lookups = 0
    /\ changed_items = 0
    /\ enriched_itunes_ids = {}
    /\ enriched_mb_ids = {}
    /\ it_calls = 0
    /\ mb_calls = 0
    /\ mb_requests = 0
    /\ ei_items0 = ei_items
    /\ ei_last = "start"

EINext ==
    \/ EIReject
    \/ EIItunesPass
    \/ EIItunesLookup
    \/ EIItunesCached
    \/ EIMbNotNeeded
    \/ EIMbPass
    \/ EIMbLookup
    \/ EIMbCached
    \/ EIFinal
    \/ EIReturn

\* The program that is not running.
ACIdle ==
    /\ ac_items = << >> /\ ac_cache = [k \in ACKeys |-> Absent]
    /\ ac_limit = 0 /\ ac_force = FALSE /\ ac_idx = 1 /\ ac_enriched = 0
    /\ ac_lookups = 0 /\ ac_pc = "idle" /\ ac_run = 1 /\ ac_calls = 0
    /\ ac_pauses = 0
    /\ ac_looked = {} /\ ac_items0 = << >>
    /\ ac_cache0 = [k \in ACKeys |-> Absent] /\ ac_last = "start"
    /\ ac_exhausted = FALSE /\ ac_prev = [lookups |-> 0, exhausted |-> FALSE]
    /\ ac_catalog = [a \in StrippedArtists |-> Absent]

EIIdle ==
    /\ ei_items = << >> /\ it_cache = [k \in EIKeys |-> PyAbsent]
    /\ mb_cache = [k \in EIKeys |-> PyAbsent] /\ it_limit = 0 /\ mb_limit = 0
    /\ ei_force = FALSE /\ ei_idx = 1 /\ ei_phase = "idle" /\ it_lookups = 0
    /\ mb_lookups = 0 /\ changed_items = 0 /\ enriched_itunes_ids = {}
    /\ enriched_mb_ids = {} /\ it_calls = 0 /\ mb_calls = 0 /\ mb_requests = 0
    /\ ei_items0 = << >> /\ ei_last = "start"

(***************************************************************************)
(* enrich_musicbrainz.py                                                   *)
(***************************************************************************)
\* line 39: NOT_FOUND = None
MBZ_NOT_FOUND == None

IsWordChar(c) ==
    \/ IndexIn(c, UpperAZ) > 0 \/ IndexIn(c, LowerAZ) > 0
    \/ IndexIn(c, Digits) > 0 \/ c = "_" \/ IndexIn(c, Accented) > 0
    \/ IndexIn(c, AccentedPlain) > 0

MBZFeatTokens == {"feat", "featuring", "ft", "with", "vs"}

\* re.sub(r"\s+\b(feat|featuring|ft|with|vs)\b\.?.*$", "", s, flags=re.I)
MBZSubFeat(s) ==
    LET n == Len(s)
        tokenAt(j) == \E t \in MBZFeatTokens :
                         /\ j + Len(t) - 1 <= n
                         /\ casefold(SubSeq(s, j, j + Len(t) - 1)) = t
                         /\ j + Len(t) <= n => ~IsWordChar(Char(s, j + Len(t)))
        starts == {i \in 1..n :
                     /\ IsSpace(Char(s, i))
                     /\ RunEnd(s, i) <= n
                     /\ tokenAt(RunEnd(s, i))}
    IN  IF starts = {} THEN s ELSE SubSeq(s, 1, Min(starts) - 1)

\* enrich_musicbrainz._clean_name, lines 64-67
MBZ_clean_name(s) == MBZSubFeat(JoinSplit(strip(s)))

\* lines 69-70
_clean_title(s) == JoinSplit(strip(s))

\* lines 75-76
_norm(s) == casefold(_ascii_fold(MBZ_clean_name(s)))

\* lines 78-79
_norm_title(s) == casefold(_ascii_fold(_clean_title(s)))

\* line 81 (the multiplication sign is written as it is in the source)
SEPARATORS == <<" & ", " × ", " x ", " + ", " / ", ";", " and ">>

\* Positions at which sub occurs in s.
FindAll(s, sub) ==
    {i \in 1..(Len(s) - Len(sub) + 1) : SubSeq(s, i, i + Len(sub) - 1) = sub}

\* lines 83-89
_reorder_if_surname_first(name) ==
    IF FindAll(name, ",") = {} THEN name
    ELSE LET c == Min(FindAll(name, ","))
             left == strip(SubSeq(name, 1, c - 1))
             right == strip(SubSeq(name, c + 1, Len(name)))
         IN  IF left # "" /\ right # "" THEN right \o " " \o left ELSE name

\* lines 91-98
_primary_artist(raw) ==
    LET s == MBZ_clean_name(strip(raw))
        present == {k \in 1..Len(SEPARATORS) : FindAll(s, SEPARATORS[k]) # {}}
        cut == IF present = {} THEN s
               ELSE strip(SubSeq(s, 1, Min(FindAll(s, SEPARATORS[Min(present)])) - 1))
    IN  _reorder_if_surname_first(cut)

\* name.split(): the words of a name
RECURSIVE Words(_)
Words(s) ==
    LET t == lstrip(s)
        spaces == {i \in 1..Len(t) : IsSpace(Char(t, i))}
    IN  IF t = "" THEN << >>
        ELSE IF spaces = {} THEN <<t>>
        ELSE <<SubSeq(t, 1, Min(spaces) - 1)>> \o Words(SubSeq(t, Min(spaces), Len(t)))

\* lines 100-107
_maybe_swap_order(name) ==
    LET parts == Words(name)
    IN  IF Len(parts) = 2 /\ Len(parts[1]) > 2 /\ Len(parts[2]) > 2
        THEN parts[2] \o " " \o parts[1] ELSE name

\* lines 109-111
_writers_key(artist, title) == strip(artist) \o "|" \o strip(title)

\* The characters of the model in the order of their code points.
CharOrder ==
    "\t !\"#$%&'()*+,-./0123456789:;<=>?@ABCDEFGHIJKLMNOPQRSTUVWXYZ[\\]^_abcdefghijklmnopqrstuvwxyz{|}~·ÀÁÂÃÄÅÆÇÈÉÊËÌÍÎÏÐÑÒÓÔÕÖ×ØÙÚÛÜÝÞßàáâãäåæçèéêëìíîïðñòóôõö÷øùúûüýþÿ"

RECURSIVE StrLess(_, _)
\* a < b for strings
StrLess(a, b) ==
    IF Len(b) = 0 THEN FALSE
    ELSE IF Len(a) = 0 THEN TRUE
    ELSE IF Char(a, 1) = Char(b, 1)
         THEN StrLess(SubSeq(a, 2, Len(a)), SubSeq(b, 2, Len(b)))
         ELSE IndexIn(Char(a, 1), CharOrder) < IndexIn(Char(b, 1), CharOrder)

RECURSIVE SortedByCasefold(_)
\* sorted(names, key=lambda x: x.casefold()) of a set of names: the lists
\* the call can return.  The sort is stable and a set is iterated in an
\* order that changes from run to run, so names with the same casefold
\* come out in any order.
SortedByCasefold(names) ==
    IF names = {} THEN {<< >>}
    ELSE LET least == {x \in names :
                         \A y \in names : ~StrLess(casefold(y), casefold(x))}
         IN  UNION {{<<x>> \o rest : rest \in SortedByCasefold(names \ {x})}
                      : x \in least}

PyList(l) == [py |-> "list", l |-> l]

\* Truth value of a Python value
Truthy(v) ==
    CASE v.py = "list" -> Len(v.l) > 0
      [] v.py = "str" -> v.s # ""
      [] v.py = "dict" -> DOMAIN v.d # {}
      [] OTHER -> FALSE

\* v.strip().lower() == "not found"
IsNotFoundText(v) == lower(strip(v)) = "not found"

\* enrich_musicbrainz.mb_lookup_country, lines 114-144, as seen by main:
\* nothing for an empty artist, otherwise the code of the best match or None
MBZ_mb_lookup_country(artist, answer) == IF artist = "" THEN None ELSE answer

\* (artist, title) of the playlist records
MBZIdentities == {<<"ABBA", "Waterloo">>, <<"Rolincova Darina", "Waterloo">>,
                  <<" ", "Waterloo">>}

\* artist_country, artist_country_code and songwriters before a run
MBZNew == [artist_country |-> Absent, artist_country_code |-> Absent,
           songwriters |-> PyAbsent]

MBZLegacy == [artist_country |-> "SK", artist_country_code |-> Absent,
              songwriters |-> PyStr("Not found")]

MBZLegacyNF == [artist_country |-> "Not found", artist_country_code |-> Absent,
                songwriters |-> PyList(<< >>)]

MBZDone == [artist_country |-> Absent, artist_country_code |-> "GB",
            songwriters |-> PyList(<<"Benny Andersson">>)]

MBZBoth == [artist_country |-> "SK", artist_country_code |-> "Not found",
            songwriters |-> PyNone]

MBZTemplates == {MBZNew, MBZLegacy, MBZLegacyNF, MBZDone, MBZBoth}

MBZRecords ==
    {[artist |-> id[1], title |-> id[2], artist_country |-> t.artist_country,
      artist_country_code |-> t.artist_country_code,
      songwriters |-> t.songwriters] : id \in MBZIdentities, t \in MBZTemplates}

MBZStrings == UNION {{id[1], id[2]} : id \in MBZIdentities}

MBZStripOf == [x \in MBZStrings |-> strip(x)]

MBZArtists == {MBZStripOf[id[1]] : id \in MBZIdentities}

MBZTitles == {MBZStripOf[id[2]] : id \in MBZIdentities}

MBZKeyOf ==
    [id \in MBZIdentities |-> _writers_key(MBZStripOf[id[1]], MBZStripOf[id[2]])]

\* Keys of writers_map: "artist|title", and the bare title of the old schema.
MBZKeys == {MBZKeyOf[id] : id \in MBZIdentities} \cup MBZTitles

\* _maybe_swap_order(_primary_artist(artist)), tabulated
MBZAltOf == [a \in MBZArtists |-> _maybe_swap_order(_primary_artist(a))]

MBZCountryTexts == {Absent, None, "", "Not found", "SK", "GB", "SE"}

MBZNotFoundTextOf == [v \in MBZCountryTexts |-> IsNotFoundText(v)]

\* The two mapping files as found on disk.
MBZArtistMaps ==
    {[a \in MBZArtists \ {""} |-> IF a = "ABBA" THEN v ELSE Absent]
       : v \in {Absent, None, "SE", "Not found"}}

MBZNoWriters == [k \in MBZKeys |-> PyAbsent]

MBZWritersMaps ==
    {MBZNoWriters}
    \cup {[MBZNoWriters EXCEPT !["ABBA|Waterloo"] = v]
            : v \in {PyNone, PyList(<< >>), PyList(<<"Benny Andersson">>)}}
    \cup {[MBZNoWriters EXCEPT !["Waterloo"] = v]
            : v \in {PyStr("Not found"), PyList(<<"Stig Anderson">>)}}

\* What MusicBrainz answers to the calls of one lookup_songwriters.
\* malformed names the call whose answer is JSON of another shape than
\* the code reads: "search" and "alt_search" for a recording search whose
\* body is no object with a list of recording objects ({"recordings":
\* null}, a list), "detail" for a recording detail that is a non-empty
\* list; "" when every answer is well formed.
SWNothing ==
    [search |-> FALSE, alt_search |-> FALSE, detail_ok |-> FALSE,
     names |-> {}, works |-> << >>, malformed |-> ""]

SWAlt ==
    [search |-> FALSE, alt_search |-> TRUE, detail_ok |-> TRUE,
     names |-> {"Benny Andersson", "benny andersson"}, works |-> << >>,
     malformed |-> ""]

SWFull ==
    [search |-> TRUE, alt_search |-> FALSE, detail_ok |-> TRUE, names |-> {},
     malformed |-> "",
     works |-> << [has_id |-> TRUE, ok |-> TRUE, names |-> {"bjorn Ulvaeus"}],
                  [has_id |-> FALSE, ok |-> FALSE, names |-> {}],
                  [has_id |-> TRUE, ok |-> TRUE, names |-> {"Stig Anderson"}] >>]

SWNoNames ==
    [search |-> TRUE, alt_search |-> FALSE, detail_ok |-> TRUE, names |-> {},
     malformed |-> "",
     works |-> << [has_id |-> TRUE, ok |-> FALSE, names |-> {}],
                  [has_id |-> TRUE, ok |-> TRUE, names |-> {"Benny Andersson",
                                                             "Anni-Frid"}] >>]

SWDetailDown ==
    [search |-> TRUE, alt_search |-> FALSE, detail_ok |-> FALSE, names |-> {},
     works |-> << >>, malformed |-> ""]

SWSearchMalformed == [SWNothing EXCEPT !.malformed = "search"]

SWAltMalformed == [SWNothing EXCEPT !.malformed = "alt_search"]

SWDetailMalformed ==
    [search |-> TRUE, alt_search |-> FALSE, detail_ok |-> TRUE, names |-> {},
     works |-> << >>, malformed |-> "detail"]

SWWorlds == {SWNothing, SWAlt, SWFull, SWNoNames, SWDetailDown,
             SWSearchMalformed, SWAltMalformed, SWDetailMalformed}

\* Names of the songwriters MusicBrainz knows
SWNames ==
    UNION {w.names \cup UNION {w.works[i].names : i \in 1..Len(w.works)}
             : w \in SWWorlds}

\* the lists sorted(names, key=casefold) can return, tabulated
SortedNamesOf == [ns \in SUBSET SWNames |-> SortedByCasefold(ns)]

RECURSIVE SWWorks(_, _, _, _)
\* lines 245-255: the calls for the first two works;
\* (names, budget left, calls made)
SWWorks(rels, budget, names, calls) ==
    IF Len(rels) = 0 \/ budget <= 0
    THEN [names |-> names, budget |-> budget, calls |-> calls]
    ELSE IF ~Head(rels).has_id THEN SWWorks(Tail(rels), budget, names, calls)
    ELSE SWWorks(Tail(rels), budget - 1,
                 IF Head(rels).ok THEN names \cup Head(rels).names ELSE names,
                 calls + 1)

\* lines 220-231: the search, and the search for the swapped name;
\* (recording found, budget left, calls made, left by an exception).
\* mb_search_recording reads the body outside its try block (lines
\* 159-182): a malformed body makes it raise after the request has been
\* sent and before calls_budget[0] -= 1 of line 221 or 228.
SWSearch(artist, world, budget) ==
    IF world.malformed = "search"
    THEN [found |-> FALSE, budget |-> budget, calls |-> 1, raised |-> TRUE]
    ELSE IF ~world.search /\ budget - 1 > 0 /\ MBZAltOf[artist] # ""
            /\ MBZAltOf[artist] # artist
    THEN IF world.malformed = "alt_search"
         THEN [found |-> FALSE, budget |-> budget - 1, calls |-> 2,
               raised |-> TRUE]
         ELSE [found |-> world.alt_search, budget |-> budget - 2, calls |-> 2,
               raised |-> FALSE]
    ELSE [found |-> world.search, budget |-> budget - 1, calls |-> 1,
          raised |-> FALSE]

\* lines 233-259: the recording, its works, and the sorted names; the
\* results the call can give, one for each order line 259 can return.
\* A recording detail that is a non-empty list passes "if not det" and
\* det.get of line 241 raises, after the decrement of line 235.
SWDetail(s, world) ==
    IF s.raised
    THEN {[sw |-> PyNone, budget |-> s.budget, calls |-> s.calls,
           raised |-> TRUE]}
    ELSE IF ~s.found \/ s.budget <= 0
    THEN {[sw |-> PyNone, budget |-> s.budget, calls |-> s.calls,
           raised |-> FALSE]}
    ELSE IF world.malformed = "detail"
    THEN {[sw |-> PyNone, budget |-> s.budget - 1, calls |-> s.calls + 1,
           raised |-> TRUE]}
    ELSE IF ~world.detail_ok
    THEN {[sw |-> PyNone, budget |-> s.budget - 1, calls |-> s.calls + 1,
           raised |-> FALSE]}
    ELSE LET w == SWWorks(SubSeq(world.works, 1, Min({Len(world.works), 2})),
                          s.budget - 1, world.names, s.calls + 1)
         IN  IF w.names = {}
             THEN {[sw |-> PyNone, budget |-> w.budget, calls |-> w.calls,
                    raised |-> FALSE]}
             ELSE {[sw |-> PyList(l), budget |-> w.budget, calls |-> w.calls,
                    raised |-> FALSE]
                     : l \in SortedNamesOf[w.names]}

\* lines 216-259: the results (songwriters or None, budget left,
\* MusicBrainz calls made, left by an exception) the call can give
lookup_songwriters(artist, title, world, budget) ==
    IF artist = "" \/ title = ""
    THEN {[sw |-> PyNone, budget |-> budget, calls |-> 0, raised |-> FALSE]}
    ELSE SWDetail(SWSearch(artist, world, budget), world)

\* lookup_songwriters and the search it starts with, tabulated over the
\* artists, titles, answers and budgets of the model
SongwritersOf ==
    [a \in MBZArtists, t \in MBZTitles, w \in SWWorlds,
     b \in 0..MaxWritersLimit |-> lookup_songwriters(a, t, w, b)]

SWSearchOf ==
    [a \in MBZArtists, w \in SWWorlds, b \in 0..MaxWritersLimit |->
        SWSearch(a, w, b)]

MBZItem == mbz_items[mbz_idx]

MBZArtistRaw(it) == MBZStripOf[it.artist]

MBZTitleRaw(it) == MBZStripOf[it.title]

MBZSet(field, v) == [mbz_items EXCEPT ![mbz_idx][field] = v]

MBZConst == UNCHANGED <<mbz_limit, writers_limit, mbz_run>> /\ MBZOnly

MBZCountrySame == UNCHANGED <<artist_map, lookups_country, enriched_country,
                              mbz_looked_artists>>

MBZWritersSame == UNCHANGED <<writers_map, writers_budget, enriched_writers,
                              mbz_sw_calls, mbz_looked_keys>>

\* lines 284-292: "Not found" and [] in the maps become None
MBZLoad ==
    /\ mbz_pc = "load"
    /\ artist_map' = [a \in DOMAIN artist_map |->
                        IF IsStr(artist_map[a]) /\ MBZNotFoundTextOf[artist_map[a]]
                        THEN None ELSE artist_map[a]]
    /\ writers_map' = [k \in DOMAIN writers_map |->
                        LET v == writers_map[k]
                        IN  IF v.py = "str" /\ MBZNotFoundTextOf[v.s] THEN PyNone
                            ELSE IF v.py = "list" /\ Len(v.l) = 0 THEN PyNone
                            ELSE v]
    /\ mbz_pc' = IF Len(mbz_items) = 0 THEN "done" ELSE "migrate"
    /\ mbz_last' = "load"
    /\ MBZConst
    /\ UNCHANGED <<mbz_items, lookups_country, writers_budget, enriched_country,
                   enriched_writers, mbz_idx, mbz_sw_calls, mbz_looked_artists,
                   mbz_looked_keys>>

\* lines 303-318: the old field and the old texts of one record
MBZMigrated(it) ==
    LET moved == IF it.artist_country_code = Absent /\ it.artist_country # Absent
                 THEN [it EXCEPT !.artist_country_code =
                                    IF IsStr(it.artist_country)
                                       /\ MBZNotFoundTextOf[it.artist_country]
                                    THEN None ELSE it.artist_country,
                                 !.artist_country = Absent]
                 ELSE it
        code == IF IsStr(moved.artist_country_code)
                   /\ MBZNotFoundTextOf[moved.artist_country_code]
                THEN None ELSE moved.artist_country_code
        sw == IF moved.songwriters.py = "str"
                 /\ MBZNotFoundTextOf[moved.songwriters.s]
              THEN PyNone
              ELSE IF moved.songwriters.py = "list" /\ Len(moved.songwriters.l) = 0
              THEN PyNone
              ELSE moved.songwriters
    IN  [moved EXCEPT !.artist_country_code = code, !.songwriters = sw]

MBZMigrate ==
    /\ mbz_pc = "migrate"
    /\ mbz_items' = [mbz_items EXCEPT ![mbz_idx] = MBZMigrated(MBZItem)]
    /\ mbz_pc' = "country"
    /\ mbz_last' = "migrate"
    /\ MBZConst /\ MBZCountrySame /\ MBZWritersSame
    /\ UNCHANGED mbz_idx

\* lines 321-337: the branch of the country step
MBZCountryBranch(it, amap, lookups, limit) ==
    LET artist_raw == MBZArtistRaw(it)
    IN  IF Get(it, "artist_country_code") \notin {None, ""} THEN "c_has"
        ELSE IF artist_raw # "" /\ amap[artist_raw] # Absent THEN "c_map"
        ELSE IF artist_raw # "" /\ lookups < limit THEN "c_lookup"
        ELSE IF artist_raw # "" THEN "c_exhausted"
        ELSE "c_noartist"

MBZCountryCur == MBZCountryBranch(MBZItem, artist_map, lookups_country, mbz_limit)

\* line 321 false: the record has a code
MBZCountryHas ==
    /\ mbz_pc = "country" /\ MBZCountryCur = "c_has"
    /\ mbz_pc' = "writers"
    /\ mbz_last' = "c_has"
    /\ MBZConst /\ MBZCountrySame /\ MBZWritersSame
    /\ UNCHANGED <<mbz_items, mbz_idx>>

\* lines 323-324: from the public map
MBZCountryFromMap ==
    /\ mbz_pc = "country" /\ MBZCountryCur = "c_map"
    /\ mbz_items' = MBZSet("artist_country_code", artist_map[MBZArtistRaw(MBZItem)])
    /\ mbz_pc' = "writers"
    /\ mbz_last' = "c_map"
    /\ MBZConst /\ MBZCountrySame /\ MBZWritersSame
    /\ UNCHANGED mbz_idx

\* lines 326-333: one MusicBrainz artist lookup
MBZCountryLookup ==
    /\ mbz_pc = "country" /\ MBZCountryCur = "c_lookup"
    /\ \E answer \in {None, "SE"} :
         LET country == MBZ_mb_lookup_country(MBZArtistRaw(MBZItem), answer)
         IN  /\ mbz_items' = MBZSet("artist_country_code", country)
             /\ artist_map' = [artist_map EXCEPT ![MBZArtistRaw(MBZItem)] = country]
             /\ enriched_country' = enriched_country
                                    + (IF country # None /\ country # "" THEN 1 ELSE 0)
    /\ lookups_country' = lookups_country + 1
    /\ mbz_looked_artists' = mbz_looked_artists \cup {MBZArtistRaw(MBZItem)}
    /\ mbz_pc' = "writers"
    /\ mbz_last' = "c_lookup"
    /\ MBZConst /\ MBZWritersSame
    /\ UNCHANGED mbz_idx

\* lines 326-327 with lines 127-134 of mb_lookup_country, which are
\* outside its try block: a body that is no object with a list of artist
\* objects makes the call raise; main has no handler, the run ends before
\* lookups_country += 1 and saves nothing.
MBZCountryLookupRaises ==
    /\ mbz_pc = "country" /\ MBZCountryCur = "c_lookup"
    /\ mbz_pc' = "raised"
    /\ mbz_last' = "c_raised"
    /\ MBZConst /\ MBZCountrySame /\ MBZWritersSame
    /\ UNCHANGED <<mbz_items, mbz_idx>>

\* lines 334-337: no artist, or no budget left
MBZCountryElse ==
    /\ mbz_pc = "country" /\ MBZCountryCur \in {"c_exhausted", "c_noartist"}
    /\ mbz_items' = MBZSet("artist_country_code", MBZ_NOT_FOUND)
    /\ artist_map' = IF MBZArtistRaw(MBZItem) # ""
                        /\ artist_map[MBZArtistRaw(MBZItem)] = Absent
                     THEN [artist_map EXCEPT ![MBZArtistRaw(MBZItem)] = MBZ_NOT_FOUND]
                     ELSE artist_map
    /\ mbz_pc' = "writers"
    /\ mbz_last' = MBZCountryCur
    /\ MBZConst /\ MBZWritersSame
    /\ UNCHANGED <<mbz_idx, lookups_country, enriched_country, mbz_looked_artists>>

\* lines 340-373: the branch of the songwriters step
MBZWritersBranch(it, wmap, budget) ==
    LET artist_raw == MBZArtistRaw(it)
        title_raw == MBZTitleRaw(it)
        key_at == MBZKeyOf[<<it.artist, it.title>>]
    IN  IF Truthy(it.songwriters) THEN "w_has"
        ELSE IF title_raw # "" /\ artist_raw # "" /\ wmap[key_at] # PyAbsent
        THEN "w_map"
        ELSE IF title_raw # "" /\ wmap[title_raw] # PyAbsent THEN "w_title"
        ELSE IF title_raw # "" /\ artist_raw # "" /\ budget > 0 THEN "w_lookup"
        ELSE IF title_raw # "" /\ artist_raw # "" THEN "w_exhausted"
        ELSE "w_noname"

MBZWritersCur == MBZWritersBranch(MBZItem, writers_map, writers_budget)

MBZKeyAt == MBZKeyOf[<<MBZItem.artist, MBZItem.title>>]

\* The end of the loop body: the next record, or the maps are saved.
MBZAdvance ==
    /\ mbz_idx' = mbz_idx + 1
    /\ mbz_pc' = IF mbz_idx + 1 > Len(mbz_items) THEN "done" ELSE "migrate"

\* line 341 false: the record has songwriters
MBZWritersHas ==
    /\ mbz_pc = "writers" /\ MBZWritersCur = "w_has"
    /\ MBZAdvance
    /\ mbz_last' = "w_has"
    /\ MBZConst /\ MBZCountrySame /\ MBZWritersSame
    /\ UNCHANGED mbz_items

\* lines 345-348: from the map, by "artist|title"
MBZWritersFromMap ==
    /\ mbz_pc = "writers" /\ MBZWritersCur = "w_map"
    /\ mbz_items' = MBZSet("songwriters", writers_map[MBZKeyAt])
    /\ enriched_writers' = enriched_writers
                           + (IF Truthy(writers_map[MBZKeyAt]) THEN 1 ELSE 0)
    /\ MBZAdvance
    /\ mbz_last' = "w_map"
    /\ MBZConst /\ MBZCountrySame
    /\ UNCHANGED <<writers_map, writers_budget, mbz_sw_calls, mbz_looked_keys>>

\* lines 351-356 without line 353: the value is not stored under the
\* "artist|title" key
MBZWritersFromTitleMut ==
    /\ mbz_pc = "writers" /\ MBZWritersCur = "w_title"
    /\ LET val == writers_map[MBZTitleRaw(MBZItem)]
       IN  /\ mbz_items' = MBZSet("songwriters", val)
           /\ enriched_writers' = enriched_writers + (IF Truthy(val) THEN 1 ELSE 0)
    /\ MBZAdvance
    /\ mbz_last' = "w_title"
    /\ MBZConst /\ MBZCountrySame
    /\ UNCHANGED <<writers_map, writers_budget, mbz_sw_calls, mbz_looked_keys>>

\* lines 351-356: from the map of the old schema, by title
MBZWritersFromTitle ==
    /\ mbz_pc = "writers" /\ MBZWritersCur = "w_title"
    /\ LET val == writers_map[MBZTitleRaw(MBZItem)]
       IN  /\ writers_map' = [writers_map EXCEPT ![MBZKeyAt] = val]
           /\ mbz_items' = MBZSet("songwriters", val)
           /\ enriched_writers' = enriched_writers + (IF Truthy(val) THEN 1 ELSE 0)
    /\ MBZAdvance
    /\ mbz_last' = "w_title"
    /\ MBZConst /\ MBZCountrySame
    /\ UNCHANGED <<writers_budget, mbz_sw_calls, mbz_looked_keys>>

\* lines 359-368: lookup_songwriters on the shared budget.  The history
\* variable notes "w_cut" when the recording was found and the budget was
\* at 0 before the call for its details (line 233).
MBZWritersLookup ==
    /\ mbz_pc = "writers" /\ MBZWritersCur = "w_lookup"
    /\ \E world \in SWWorlds :
       \E r \in SongwritersOf[MBZArtistRaw(MBZItem), MBZTitleRaw(MBZItem),
                              world, writers_budget] :
         LET s == SWSearchOf[MBZArtistRaw(MBZItem), world, writers_budget]
         IN  /\ ~r.raised
             /\ mbz_last' = IF s.found /\ s.budget <= 0 THEN "w_cut"
                            ELSE "w_lookup"
             /\ writers_budget' = r.budget
             /\ mbz_sw_calls' = mbz_sw_calls + r.calls
             /\ IF Truthy(r.sw)
                THEN /\ mbz_items' = MBZSet("songwriters", r.sw)
                     /\ writers_map' = [writers_map EXCEPT ![MBZKeyAt] = r.sw]
                     /\ enriched_writers' = enriched_writers + 1
                ELSE /\ mbz_items' = MBZSet("songwriters", PyNone)
                     /\ writers_map' = [writers_map EXCEPT ![MBZKeyAt] = PyNone]
                     /\ enriched_writers' = enriched_writers
    /\ mbz_looked_keys' = mbz_looked_keys \cup {MBZKeyAt}
    /\ MBZAdvance
    /\ MBZConst /\ MBZCountrySame

\* lines 359-361 when lookup_songwriters is left by an exception of
\* mb_search_recording or of line 241: main has no handler, the run ends
\* with the calls made and the budget as the call left it, and saves
\* nothing.
MBZWritersLookupRaises ==
    /\ mbz_pc = "writers" /\ MBZWritersCur = "w_lookup"
    /\ \E world \in SWWorlds :
       \E r \in SongwritersOf[MBZArtistRaw(MBZItem), MBZTitleRaw(MBZItem),
                              world, writers_budget] :
         /\ r.raised
         /\ writers_budget' = r.budget
         /\ mbz_sw_calls' = mbz_sw_calls + r.calls
    /\ mbz_looked_keys' = mbz_looked_keys \cup {MBZKeyAt}
    /\ mbz_pc' = "raised"
    /\ mbz_last' = "w_raised"
    /\ MBZConst /\ MBZCountrySame
    /\ UNCHANGED <<mbz_items, mbz_idx, writers_map, enriched_writers>>

\* lines 370-373: no name, or no budget left
MBZWritersElse ==
    /\ mbz_pc = "writers" /\ MBZWritersCur \in {"w_exhausted", "w_noname"}
    /\ mbz_items' = MBZSet("songwriters", PyNone)
    /\ writers_map' = IF MBZTitleRaw(MBZItem) # "" /\ MBZArtistRaw(MBZItem) # ""
                         /\ writers_map[MBZKeyAt] = PyAbsent
                      THEN [writers_map EXCEPT ![MBZKeyAt] = PyNone]
                      ELSE writers_map
    /\ MBZAdvance
    /\ mbz_last' = MBZWritersCur
    /\ MBZConst /\ MBZCountrySame
    /\ UNCHANGED <<writers_budget, enriched_writers, mbz_sw_calls, mbz_looked_keys>>

\* lines 376-378 and 276-297 of the next run: the playlist and the maps
\* are saved, and main is run again with the same arguments.
MBZRunAgain ==
    /\ mbz_pc = "done" /\ mbz_run < MaxRuns
    /\ mbz_run' = mbz_run + 1
    /\ mbz_pc' = "load"
    /\ mbz_idx' = 1
    /\ lookups_country' = 0
    /\ writers_budget' = writers_limit
    /\ enriched_country' = 0
    /\ enriched_writers' = 0
    /\ mbz_sw_calls' = 0
    /\ mbz_looked_artists' = {}
    /\ mbz_looked_keys' = {}
    /\ mbz_last' = "start"
    /\ UNCHANGED <<mbz_items, artist_map, writers_map, mbz_limit, writers_limit>>
    /\ MBZOnly

MBZInit ==
    /\ mbz_items \in UNION {[1..n -> MBZRecords] : n \in 0..MBZMaxItems}
    /\ artist_map \in MBZArtistMaps
    /\ writers_map \in MBZWritersMaps
    /\ mbz_limit \in 0..MBZMaxLimit
    /\ writers_limit \in 0..MaxWritersLimit
    /\ lookups_country = 0
    /\ writers_budget = writers_limit
    /\ enriched_country = 0
    /\ enriched_writers = 0
    /\ mbz_idx = 1
    /\ mbz_pc = "load"
    /\ mbz_run = 1
    /\ mbz_last = "start"
    /\ mbz_sw_calls = 0
    /\ mbz_looked_artists = {}
    /\ mbz_looked_keys = {}

MBZNext ==
    \/ MBZLoad
    \/ MBZMigrate
    \/ MBZCountryHas
    \/ MBZCountryFromMap
    \/ MBZCountryLookup
    \/ MBZCountryLookupRaises
    \/ MBZCountryElse
    \/ MBZWritersHas
    \/ MBZWritersFromMap
    \/ MBZWritersFromTitle
    \/ MBZWritersLookup
    \/ MBZWritersLookupRaises
    \/ MBZWritersElse
    \/ MBZRunAgain

MBZIdle ==
    /\ mbz_items = << >> /\ artist_map = [a \in MBZArtists \ {""} |-> Absent]
    /\ writers_map = MBZNoWriters /\ mbz_limit = 0 /\ writers_limit = 0
    /\ lookups_country = 0 /\ writers_budget = 0 /\ enriched_country = 0
    /\ enriched_writers = 0 /\ mbz_idx = 1 /\ mbz_pc = "idle" /\ mbz_run = 1
    /\ mbz_last = "start" /\ mbz_sw_calls = 0 /\ mbz_looked_artists = {}
    /\ mbz_looked_keys = {}

\* scraper.py is not run
SCIdle ==
    /\ sc_file = << >> /\ sc_hosts = << >> /\ sc_page = << >>
    /\ sc_pc = "idle" /\ sc_ret = None /\ sc_added = 0 /\ sc_writes = 0
    /\ sc_file0 = << >>

\* no function is called on its own
FNIdle ==
    /\ fn_name = "idle" /\ fn_arg = << >> /\ fn_res = None /\ fn_pc = "idle"

vars == <<acVars, eiVars, mbzVars, scVars, fnVars>>

\* enrich_artist_country.py is run
InitAC == ACInit /\ EIIdle /\ MBZIdle /\ SCIdle /\ FNIdle

SpecAC == InitAC /\ [][ACNext]_vars

\* enrich_itunes.py is run
InitEI == EIInit /\ ACIdle /\ MBZIdle /\ SCIdle /\ FNIdle

SpecEI == InitEI /\ [][EINext]_vars

\* enrich_musicbrainz.py is run
InitMBZ == MBZInit /\ ACIdle /\ EIIdle /\ SCIdle /\ FNIdle

SpecMBZ == InitMBZ /\ [][MBZNext]_vars

\* The two scripts that keep a lookup cache with CACHE_MISS entries:
\* either of them is run.
InitCaches == InitAC \/ InitEI

NextCaches ==
    \/ ACSkipResolved
    \/ ACEmptyArtist
    \/ ACCacheMiss
    \/ ACCacheHit
    \/ ACBudgetExhausted
    \/ ACLookup
    \/ ACLookupFails
    \/ ACLookupRaises
    \/ ACReturn
    \/ ACRunAgain
    \/ EIReject
    \/ EIItunesPass
    \/ EIItunesLookup
    \/ EIItunesCached
    \/ EIMbNotNeeded
    \/ EIMbPass
    \/ EIMbLookup
    \/ EIMbCached
    \/ EIFinal
    \/ EIReturn

SpecCaches == InitCaches /\ [][NextCaches]_vars

(***************************************************************************)
(* Candidate scorers.  A search result is a list of candidates; each       *)
(* scorer scans it once, scores every candidate and keeps the best.  The   *)
(* similarity ratios of difflib.SequenceMatcher are inputs, in hundredths; *)
(* a score is kept in ten-thousandths, so that 0.72 is 7200 and 1.0 is     *)
(* 10000.                                                                 *)
(***************************************************************************)
MaxCands == 2

\* SequenceMatcher.ratio() of a candidate, in hundredths.  On these
\* values the float sums of the source compare as the exact sums do.
RatioPool == {0, 60, 100}

\* the "score" MusicBrainz gives a candidate, 0-100
MBScorePool == {0, 20, 100}

\* enrich_itunes.py:176  score = 0.55 * s_title + 0.45 * s_artist
itunes_score(r) == 55 * r.s_title + 45 * r.s_artist

\* area.get(k) of an area object
AreaGet(area, k) == IF k \in DOMAIN area.d THEN area.d[k] ELSE PyNone

\* enrich_artist_country.py:134-137
\*   bonus_has_country = 0.05 if (a.get("country") or a.get("area")) else 0.0
\*   score = 0.7 * ratio + 0.25 * mb_score + bonus_has_country
\* "area" is the area object of the candidate: any dict that is not
\* empty earns the bonus, with ISO codes or without.
AC_score(a) ==
    70 * a.ratio + 25 * a.score
    + (IF a.country \notin {None, ""} \/ Truthy(a.area) THEN 500 ELSE 0)

\* enrich_musicbrainz.py:132
\*   score = 0.7 * ratio + 0.3 * (score / 100.0) + (0.05 if country else 0.0)
MBZ_score(a) ==
    70 * a.ratio + 30 * a.score
    + (IF a.country \notin {None, ""} THEN 500 ELSE 0)

\* enrich_musicbrainz.py:177
\*   score = 0.6 * title_ratio + 0.35 * rec_score_mb + (0.05 if artist_hit ..)
recording_score(rec) ==
    60 * rec.title_ratio + 35 * rec.score
    + (IF rec.artist_hit THEN 500 ELSE 0)

\* "if score >= best_score" in place of "if score > best_score"
BestScanMut(scores) ==
    LET Step[i \in 0..Len(scores)] ==
            IF i = 0 THEN [best |-> 0, best_score |-> 0]
            ELSE IF scores[i] >= Step[i - 1].best_score
                 THEN [best |-> i, best_score |-> scores[i]]
                 ELSE Step[i - 1]
    IN Step[Len(scores)]

\* The loop every scorer runs: best = None, best_score = 0.0, and
\* "if score > best_score: best = candidate; best_score = score".
\* best is the position of the candidate kept, 0 for None.
BestScan(scores) ==
    LET Step[i \in 0..Len(scores)] ==
            IF i = 0 THEN [best |-> 0, best_score |-> 0]
            ELSE IF scores[i] > Step[i - 1].best_score
                 THEN [best |-> i, best_score |-> scores[i]]
                 ELSE Step[i - 1]
    IN Step[Len(scores)]

\* enrich_itunes.py:169-198: the scan, the threshold and the metadata of
\* the candidate kept (its trackId stands for the dict returned).
itunes_lookup_best(results) ==
    LET scan == BestScan([i \in 1..Len(results) |-> itunes_score(results[i])])
    IN [best |-> scan.best, best_score |-> scan.best_score,
        value |-> IF scan.best = 0 \/ scan.best_score < 7200 THEN None
                  ELSE results[scan.best].trackId]

\* enrich_artist_country.py:149-153, enrich_musicbrainz.py:141-143
\*   area = best.get("area") or {}
\*   codes = area.get("iso-3166-1-codes") or []
\* the first code when there is one, else None
AreaCode(area) ==
    LET codes == IF Truthy(area) THEN AreaGet(area, "iso-3166-1-codes")
                 ELSE PyNone
    IN  IF Truthy(codes) THEN codes.l[1] ELSE None

\* country of the candidate kept: "country", else the first ISO code of
\* "area", else None
CandidateCountry(a) ==
    IF a.country \notin {None, ""} THEN a.country ELSE AreaCode(a.area)

\* enrich_artist_country.py:126-155
AC_lookup_country_best(artists) ==
    LET scan == BestScan([i \in 1..Len(artists) |-> AC_score(artists[i])])
    IN [best |-> scan.best, best_score |-> scan.best_score,
        value |-> IF scan.best = 0 THEN None
                  ELSE CandidateCountry(artists[scan.best])]

\* enrich_musicbrainz.py:127-144
MBZ_lookup_country_best(artists) ==
    LET scan == BestScan([i \in 1..Len(artists) |-> MBZ_score(artists[i])])
    IN [best |-> scan.best, best_score |-> scan.best_score,
        value |-> IF scan.best = 0 THEN None
                  ELSE CandidateCountry(artists[scan.best])]

\* enrich_musicbrainz.py:163-182
mb_search_recording_best(recordings) ==
    LET scan == BestScan([i \in 1..Len(recordings) |->
                              recording_score(recordings[i])])
    IN [best |-> scan.best, best_score |-> scan.best_score,
        value |-> IF scan.best = 0 THEN None ELSE recordings[scan.best].id]

\* result lists: the i-th candidate carries the id i
ITCandidates ==
    [s_title : RatioPool, s_artist : RatioPool]

\* the "area" of an artist candidate: none, an area that has no ISO code
\* (a region), an area with a code
AreaPool ==
    {PyNone,
     PyDict([name |-> PyStr("Europe")]),
     PyDict([k \in {"name", "iso-3166-1-codes"} |->
               IF k = "name" THEN PyStr("Slovakia") ELSE PyList(<<"SK">>)])}

ArtistCandidates ==
    [ratio : RatioPool, score : MBScorePool, country : {None, "GB"},
     area : AreaPool]

RecordingCandidates ==
    [title_ratio : RatioPool, score : MBScorePool, artist_hit : BOOLEAN]

CandidateLists(C) == UNION {[1..n -> C] : n \in 0..MaxCands}

WithIds(l, field) ==
    [i \in 1..Len(l) |-> [k \in DOMAIN l[i] \cup {field} |->
                              IF k = field THEN i ELSE l[i][k]]]

ScorerInit ==
    /\ fn_pc = "call" /\ fn_res = None
    /\ \/ /\ fn_name = "itunes_lookup"
          /\ \E l \in CandidateLists(ITCandidates) :
                 fn_arg = WithIds(l, "trackId")
       \/ /\ fn_name \in {"enrich_artist_country.mb_lookup_country",
                          "enrich_musicbrainz.mb_lookup_country"}
          /\ fn_arg \in CandidateLists(ArtistCandidates)
       \/ /\ fn_name = "mb_search_recording"
          /\ \E l \in CandidateLists(RecordingCandidates) :
                 fn_arg = WithIds(l, "id")

ScoreItunes ==
    /\ fn_pc = "call" /\ fn_name = "itunes_lookup"
    /\ fn_res' = itunes_lookup_best(fn_arg)
    /\ fn_pc' = "done"
    /\ UNCHANGED <<fn_name, fn_arg>> /\ FNOnly

ScoreACCountry ==
    /\ fn_pc = "call" /\ fn_name = "enrich_artist_country.mb_lookup_country"
    /\ fn_res' = AC_lookup_country_best(fn_arg)
    /\ fn_pc' = "done"
    /\ UNCHANGED <<fn_name, fn_arg>> /\ FNOnly

ScoreMBZCountry ==
    /\ fn_pc = "call" /\ fn_name = "enrich_musicbrainz.mb_lookup_country"
    /\ fn_res' = MBZ_lookup_country_best(fn_arg)
    /\ fn_pc' = "done"
    /\ UNCHANGED <<fn_name, fn_arg>> /\ FNOnly

ScoreRecording ==
    /\ fn_pc = "call" /\ fn_name = "mb_search_recording"
    /\ fn_res' = mb_search_recording_best(fn_arg)
    /\ fn_pc' = "done"
    /\ UNCHANGED <<fn_name, fn_arg>> /\ FNOnly

InitScorers == ScorerInit /\ ACIdle /\ EIIdle /\ MBZIdle /\ SCIdle

NextScorers ==
    \/ ScoreItunes
    \/ ScoreACCountry
    \/ ScoreMBZCountry
    \/ ScoreRecording

SpecScorers == InitScorers /\ [][NextScorers]_vars

(***************************************************************************)
(* Artist keys.  Two spellings of an artist are normalised one after the   *)
(* other: by _cache_key_artist, the key of the country cache of            *)
(* enrich_artist_country.py, or by _norm(_primary_artist(..)), the form    *)
(* enrich_musicbrainz.py compares artists in (line 160).                   *)
(***************************************************************************)
NamePool ==
    {"Iron   Maiden (Live)", "iron maiden", "Novák, Ján", "Ján Novák",
     "Queen & Adam Lambert", "ABBA feat. Cher", " Elán "}

\* enrich_artist_country.py:183  key = _cache_key_artist(artist)
ACKeyOfName == [n \in NamePool |-> _cache_key_artist(n)]

\* enrich_musicbrainz.py:160  want_artist = _norm(_primary_artist(artist))
MBZKeyOfName == [n \in NamePool |-> _norm(_primary_artist(n))]

NormalizeInit ==
    /\ fn_pc = "call" /\ fn_res = None
    /\ fn_name \in {"_cache_key_artist", "_norm(_primary_artist)"}
    /\ fn_arg \in NamePool \X NamePool

NormalizeAC ==
    /\ fn_pc = "call" /\ fn_name = "_cache_key_artist"
    /\ fn_res' = <<ACKeyOfName[fn_arg[1]], ACKeyOfName[fn_arg[2]]>>
    /\ fn_pc' = "done"
    /\ UNCHANGED <<fn_name, fn_arg>> /\ FNOnly

NormalizeMBZ ==
    /\ fn_pc = "call" /\ fn_name = "_norm(_primary_artist)"
    /\ fn_res' = <<MBZKeyOfName[fn_arg[1]], MBZKeyOfName[fn_arg[2]]>>
    /\ fn_pc' = "done"
    /\ UNCHANGED <<fn_name, fn_arg>> /\ FNOnly

InitNormalize == NormalizeInit /\ ACIdle /\ EIIdle /\ MBZIdle /\ SCIdle

NextNormalize ==
    \/ NormalizeAC
    \/ NormalizeMBZ

SpecNormalize == InitNormalize /\ [][NextNormalize]_vars

(***************************************************************************)
(* enrich_artist_country.py run again and again with the same arguments,   *)
(* force off and a limit of at least 1.  Runs are numbered up to MaxRuns   *)
(* and later runs keep that number.                                        *)
(***************************************************************************)

\* main, lines 230-247, run again after a run that returned (the files it
\* wrote are loaded) or that ended in an exception (nothing was written:
\* the files are as the run found them).
ACRerun ==
    /\ ac_pc \in {"done", "raised"}
    /\ ac_run' = (IF ac_run < MaxRuns THEN ac_run + 1 ELSE ac_run)
    /\ ac_pc' = "loop"
    /\ ac_items' = (IF ac_pc = "raised" THEN ac_items0 ELSE ac_items)
    /\ ac_cache' = (IF ac_pc = "raised" THEN ac_cache0 ELSE ac_cache)
    /\ ac_items0' = ac_items'
    /\ ac_cache0' = ac_cache'
    /\ ac_idx' = 1
    /\ ac_enriched' = 0
    /\ ac_lookups' = 0
    /\ ac_calls' = 0
    /\ ac_pauses' = 0
    /\ ac_looked' = {}
    /\ ac_exhausted' = FALSE
    /\ ac_prev' = [lookups |-> ac_lookups, exhausted |-> ac_exhausted]
    /\ ac_last' = "start"
    /\ UNCHANGED <<ac_limit, ac_force, ac_catalog>>
    /\ ACOnly

InitACLive == InitAC /\ ~ac_force /\ ac_limit >= 1

NextACLive ==
    \/ ACSkipResolved
    \/ ACEmptyArtist
    \/ ACCacheMiss
    \/ ACCacheHit
    \/ ACBudgetExhausted
    \/ ACLookup
    \/ ACLookupFails
    \/ ACLookupRaises
    \/ ACReturn
    \/ ACRerun

\* The script is never left half-way and is always run again.
SpecACLive == InitACLive /\ [][NextACLive]_vars /\ WF_vars(NextACLive)

(***************************************************************************)
(* scraper.py: one run of main.  The page is fetched from the hosts in     *)
(* turn, parsed, merged into the playlist file and the file is written.    *)
(* A playlist file that is missing or is not JSON is read as [] by         *)
(* load_existing and is the empty list here.  The file is any list of      *)
(* records: the enrichment scripts and other hands write it too, so it     *)
(* need not be sorted and can hold a key twice.                            *)
(***************************************************************************)
SCMaxLen == 2

\* records a page or the file can hold: two plays across midnight of New
\* Year, two songs played at the same minute, a record without time, a
\* time of one digit, a date that is no day of the calendar, and a play
\* that is there a second time with the country enrich_artist_country.py
\* has written into it (the same unique_key, another record)
SCRecordPool ==
    {[date |-> "31.12.2023", time |-> "23:55", artist |-> "ABBA",
      title |-> "Waterloo", artist_country |-> Absent],
     [date |-> "01.01.2024", time |-> "00:05", artist |-> "ABBA",
      title |-> "Waterloo", artist_country |-> Absent],
     [date |-> "01.01.2024", time |-> "00:05", artist |-> "ABBA",
      title |-> "Waterloo", artist_country |-> "SE"],
     [date |-> "01.01.2024", time |-> "00:05", artist |-> "Queen",
      title |-> "Bohemian Rhapsody", artist_country |-> Absent],
     [date |-> "01.01.2024", time |-> None, artist |-> "ABBA",
      title |-> "Waterloo", artist_country |-> Absent],
     [date |-> "01.01.2024", time |-> "0:05", artist |-> "ABBA",
      title |-> "Waterloo", artist_country |-> Absent],
     [date |-> "31.02.2024", time |-> "10:00", artist |-> "Queen",
      title |-> "Bohemian Rhapsody", artist_country |-> Absent]}

\* f"{v}" of a string or of None
FStr(v) == IF v = None THEN "None" ELSE v

\* lines 176-178
unique_key(item) ==
    FStr(item.date) \o " " \o FStr(item.time) \o " | " \o FStr(item.artist)
    \o " | " \o FStr(item.title)

\* the character at position i of s, "" outside s
At(s, i) == IF i >= 1 /\ i <= Len(s) THEN Char(s, i) ELSE ""

IsDigitAt(s, i) == IndexIn(At(s, i), Digits) > 0

\* Length of the text a directive of strptime takes at the head of s, 0
\* when it takes none.  The alternatives are tried in the order of the
\* regular expressions of _strptime:
\*   %d  3[0-1]|[1-2]\d|0[1-9]|[1-9]| [1-9]      %m  1[0-2]|0[1-9]|[1-9]
\*   %Y  \d\d\d\d        %H  2[0-3]|[0-1]\d|\d    %M  [0-5]\d|\d
DirLen(dir, s) ==
    CASE dir = "d" ->
           IF \/ At(s, 1) = "3" /\ At(s, 2) \in {"0", "1"}
              \/ At(s, 1) \in {"1", "2"} /\ IsDigitAt(s, 2)
              \/ At(s, 1) = "0" /\ IsDigitAt(s, 2) /\ At(s, 2) # "0"
           THEN 2
           ELSE IF IsDigitAt(s, 1) /\ At(s, 1) # "0" THEN 1
           ELSE IF At(s, 1) = " " /\ IsDigitAt(s, 2) /\ At(s, 2) # "0" THEN 2
           ELSE 0
      [] dir = "m" ->
           IF \/ At(s, 1) = "1" /\ At(s, 2) \in {"0", "1", "2"}
              \/ At(s, 1) = "0" /\ IsDigitAt(s, 2) /\ At(s, 2) # "0"
           THEN 2
           ELSE IF IsDigitAt(s, 1) /\ At(s, 1) # "0" THEN 1
           ELSE 0
      [] dir = "Y" ->
           IF \A i \in 1..4 : IsDigitAt(s, i) THEN 4 ELSE 0
      [] dir = "H" ->
           IF \/ At(s, 1) = "2" /\ At(s, 2) \in {"0", "1", "2", "3"}
              \/ At(s, 1) \in {"0", "1"} /\ IsDigitAt(s, 2)
           THEN 2
           ELSE IF IsDigitAt(s, 1) THEN 1
           ELSE 0
      [] OTHER ->
           IF At(s, 1) \in {"0", "1", "2", "3", "4", "5"} /\ IsDigitAt(s, 2)
           THEN 2
           ELSE IF IsDigitAt(s, 1) THEN 1
           ELSE 0

RECURSIVE SpaceLen(_)
\* Length of the white space \s+ takes at the head of s
SpaceLen(s) ==
    IF IsSpace(At(s, 1)) THEN 1 + SpaceLen(SubSeq(s, 2, Len(s))) ELSE 0

\* the format "%d.%m.%Y %H:%M" piece by piece
DATE_FORMAT == <<"d", ".", "m", ".", "Y", " ", "H", ":", "M">>

\* Length of the text a piece of the format takes at the head of s
PieceLen(piece, s) ==
    IF piece \in {".", ":"} THEN (IF At(s, 1) = piece THEN 1 ELSE 0)
    ELSE IF piece = " " THEN SpaceLen(s)
    ELSE DirLen(piece, s)

\* the one element of a set of one element
TheOne(S) == CHOOSE x \in S : TRUE

RECURSIVE MatchFormat(_, _, _)
\* The numbers of the directives of fmt as they match s from its head to
\* its end, after the numbers vals; "ValueError" when s does not match
MatchFormat(fmt, s, vals) ==
    IF Len(fmt) = 0 THEN (IF Len(s) = 0 THEN vals ELSE "ValueError")
    ELSE TheOne({IF n = 0 THEN "ValueError"
                 ELSE MatchFormat(Tail(fmt), SubSeq(s, n + 1, Len(s)),
                                  IF Head(fmt) \in {".", ":", " "} THEN vals
                                  ELSE Append(vals,
                                              StrToNat(strip(SubSeq(s, 1, n)))))
                   : n \in {PieceLen(Head(fmt), s)}})

\* datetime.min
datetime_min == <<1, 1, 1, 0, 0>>

IsLeap(y) == y % 4 = 0 /\ (y % 100 # 0 \/ y % 400 = 0)

DaysInMonth(y, m) ==
    IF m = 2 THEN (IF IsLeap(y) THEN 29 ELSE 28)
    ELSE IF m \in {4, 6, 9, 11} THEN 30 ELSE 31

\* datetime.strptime(s, "%d.%m.%Y %H:%M") as <<year, month, day, hour,
\* minute>>, or "ValueError": the text has to match as a whole and the
\* five numbers have to be a date of the calendar from year 1 on
strptime(s) ==
    TheOne({IF v = "ValueError" THEN v
            ELSE IF v[3] >= 1 /\ v[1] <= DaysInMonth(v[3], v[2])
            THEN <<v[3], v[2], v[1], v[4], v[5]>>
            ELSE "ValueError"
              : v \in {MatchFormat(DATE_FORMAT, s, << >>)}})

\* lines 195-199: the datetime of the record's date and time, datetime.min
\* when strptime raises
sort_key(it) ==
    TheOne({IF dt = "ValueError" THEN datetime_min ELSE dt
              : dt \in {strptime(FStr(it.date) \o " " \o FStr(it.time))}})

RECURSIVE DateTimeLeq(_, _)
\* a <= b for two datetimes
DateTimeLeq(a, b) ==
    IF Len(a) = 0 THEN TRUE
    ELSE Head(a) < Head(b) \/ (Head(a) = Head(b) /\ DateTimeLeq(Tail(a), Tail(b)))

SCKeyOf == [r \in SCRecordPool |-> unique_key(r)]

SCSortKeyOf == [r \in SCRecordPool |-> sort_key(r)]

\* position of key k among the values of the dict seen, 0 when absent
SeenAt(seen, k) ==
    LET hits == {i \in 1..Len(seen) : SCKeyOf[seen[i]] = k}
    IN  IF hits = {} THEN 0 ELSE CHOOSE i \in hits : TRUE

\* line 185 with the records of old taken as they come, a key met again
\* kept twice
SeenOfOldMut(old) == old

\* line 185: seen = {unique_key(it): it for it in old}, as the list of its
\* values in insertion order; a key met again keeps its place and takes
\* the later record
RECURSIVE SeenOfOld(_)
SeenOfOld(old) ==
    IF old = << >> THEN << >>
    ELSE LET seen == SeenOfOld(SubSeq(old, 1, Len(old) - 1))
             it   == old[Len(old)]
             at   == SeenAt(seen, SCKeyOf[it])
         IN  IF at = 0 THEN Append(seen, it)
             ELSE [seen EXCEPT ![at] = it]

\* lines 186-191: the records of new whose key is not yet seen are added
RECURSIVE AddNew(_, _)
AddNew(seen, new) ==
    IF new = << >> THEN [seen |-> seen, added |-> 0]
    ELSE LET before == AddNew(seen, SubSeq(new, 1, Len(new) - 1))
             it     == new[Len(new)]
         IN  IF SeenAt(before.seen, SCKeyOf[it]) = 0
             THEN [seen |-> Append(before.seen, it),
                   added |-> before.added + 1]
             ELSE before

\* line 201: merged.sort(key=sort_key, reverse=True); the sort is stable,
\* records with the same sort key stay in the order they had
RECURSIVE SortNewestFirst(_)
SortNewestFirst(l) ==
    IF l = << >> THEN << >>
    ELSE LET sorted == SortNewestFirst(SubSeq(l, 1, Len(l) - 1))
             it     == l[Len(l)]
             ahead  == {i \in 1..Len(sorted) :
                            DateTimeLeq(SCSortKeyOf[it],
                                        SCSortKeyOf[sorted[i]])}
             n      == Cardinality(ahead)
         IN  SubSeq(sorted, 1, n) \o <<it>> \o SubSeq(sorted, n + 1, Len(sorted))

\* lines 181-203
merge_dedup(old, new) ==
    LET r == AddNew(SeenOfOld(old), new)
    IN  [merged |-> SortNewestFirst(r.seen), added |-> r.added]

\* lines 73-87: the page of the first host that answers; every host
\* failing with a requests.RequestException raises the last error
fetch_html(hosts) ==
    IF \E h \in 1..Len(hosts) : hosts[h] = "ok" THEN "html" ELSE "raise"

\* the lists of records load_existing or parse_playlist can return
SCLists == UNION {[1..n -> SCRecordPool] : n \in 0..SCMaxLen}

SCInit ==
    /\ sc_file \in SCLists
    /\ sc_hosts \in [1..2 -> {"ok", "error"}]
    /\ sc_page \in SCLists
    /\ sc_pc = "main"
    /\ sc_ret = None
    /\ sc_added = 0
    /\ sc_writes = 0
    /\ sc_file0 = sc_file

SCReturn(code) ==
    /\ sc_pc' = "returned" /\ sc_ret' = code
    /\ UNCHANGED <<sc_hosts, sc_page, sc_file0>> /\ SCOnly

\* lines 210-214: every host failed, the error is logged
SCNetworkError ==
    /\ sc_pc = "main" /\ fetch_html(sc_hosts) = "raise"
    /\ SCReturn(0)
    /\ UNCHANGED <<sc_file, sc_added, sc_writes>>

\* lines 216-219 with the file written all the same
SCNoRecordsMut ==
    /\ sc_pc = "main" /\ fetch_html(sc_hosts) = "html" /\ sc_page = << >>
    /\ SCReturn(0)
    /\ sc_file' = merge_dedup(sc_file, sc_page).merged
    /\ sc_writes' = sc_writes + 1
    /\ UNCHANGED sc_added

\* lines 216-219: the page has no records
SCNoRecords ==
    /\ sc_pc = "main" /\ fetch_html(sc_hosts) = "html" /\ sc_page = << >>
    /\ SCReturn(0)
    /\ UNCHANGED <<sc_file, sc_added, sc_writes>>

\* lines 221-239: merge into the file and write it
SCMergeAndWrite ==
    /\ sc_pc = "main" /\ fetch_html(sc_hosts) = "html" /\ sc_page # << >>
    /\ LET r == merge_dedup(sc_file, sc_page)
       IN  /\ sc_file' = r.merged
           /\ sc_added' = r.added
    /\ sc_writes' = sc_writes + 1
    /\ SCReturn(0)

InitScraper == SCInit /\ ACIdle /\ EIIdle /\ MBZIdle /\ FNIdle

NextScraper ==
    \/ SCNetworkError
    \/ SCNoRecords
    \/ SCMergeAndWrite

SpecScraper == InitScraper /\ [][NextScraper]_vars

(***************************************************************************)
(* itunes_enrich.py                                                        *)
(***************************************************************************)
\* "b in a" of two strings
Contains(a, b) ==
    \E i \in 0..(Len(a) - Len(b)) : SubSeq(a, i + 1, i + Len(b)) = b

\* First index of s where pat begins, letter case ignored; 0 if none.
FindCI(s, pat) ==
    LET hits == {i \in 1..(Len(s) - Len(pat) + 1) :
                   casefold(SubSeq(s, i, i + Len(pat) - 1)) = pat}
    IN  IF hits = {} THEN 0 ELSE Min(hits)

RECURSIVE SubFeatParens(_)
\* re.sub(r"\s*\(feat\.?.*?\)", "", s, flags=re.IGNORECASE)
SubFeatParens(s) ==
    LET n == Len(s)
        j == FindCI(s, "(feat")
        closes == {k \in (j + 5)..n : Char(s, k) = ")"}
    IN  IF j = 0 \/ closes = {} THEN s
        ELSE rstrip(SubSeq(s, 1, j - 1))
             \o SubFeatParens(SubSeq(s, Min(closes) + 1, n))

\* re.sub(r"\s*feat\.?.*", "", s, flags=re.IGNORECASE) for pat = "feat",
\* re.sub(r"\s*ft\.?.*", "", s, flags=re.IGNORECASE) for pat = "ft"
CutFrom(s, pat) ==
    IF FindCI(s, pat) = 0 THEN s ELSE rstrip(SubSeq(s, 1, FindCI(s, pat) - 1))

\* lines 38-46
normalize_text(s) ==
    CutFrom(CutFrom(SubFeatParens(JoinSplit(lstrip(IF s = None THEN "" ELSE s))),
                    "feat"), "ft")

\* lines 74-75: normalize_text(s).lower()
norm(s) == lower(normalize_text(s))

RECURSIVE JoinReversed(_)
\* " ".join(reversed(words))
JoinReversed(words) ==
    IF Len(words) = 0 THEN ""
    ELSE IF Len(words) = 1 THEN words[1]
    ELSE JoinReversed(Tail(words)) \o " " \o Head(words)

\* lines 87-90: the artist's part of the score, of normalised names
ArtistScore(a, ta, ta_rev) ==
    IF a = ta \/ a = ta_rev THEN 60
    ELSE IF Contains(a, ta) \/ Contains(ta, a) \/ Contains(a, ta_rev) THEN 40
    ELSE 0

\* lines 92-95: the title's part of the score, of normalised titles
TitleScore(t, tt) ==
    IF t = tt THEN 60
    ELSE IF Contains(t, tt) \/ Contains(tt, t) THEN 40
    ELSE 0

\* lines 83-96, with ta, ta_rev and tt of lines 77-81
score_pair(a, t, target_artist, target_title) ==
    ArtistScore(norm(a), norm(target_artist),
                JoinReversed(Words(norm(target_artist))))
    + TitleScore(norm(t), norm(target_title))

\* lines 101-102: the best so far after candidate i (counted from 0) of
\* score s
BetterOf(best, i, s) == IF s > best.score THEN [i |-> i, score |-> s] ELSE best

RECURSIVE BestMatchFrom(_, _, _, _, _)
\* lines 98-103: the first candidate of the highest score
BestMatchFrom(candidates, i, best, target_artist, target_title) ==
    IF i >= Len(candidates) THEN best
    ELSE BestMatchFrom(candidates, i + 1,
                       BetterOf(best, i,
                                score_pair(candidates[i + 1].artist,
                                           candidates[i + 1].title,
                                           target_artist, target_title)),
                       target_artist, target_title)

\* lines 73-103: (best_i, best_score)
best_match_index(candidates, target_artist, target_title) ==
    BestMatchFrom(candidates, 0, [i |-> -1, score |-> -1],
                  target_artist, target_title)

RECURSIVE SplitAtChar(_, _)
\* re.split(r"\s*c\s*", p) for a character c
SplitAtChar(p, c) ==
    LET n == Len(p)
        hits == {i \in 1..n : Char(p, i) = c}
    IN  IF hits = {} THEN <<p>>
        ELSE <<rstrip(SubSeq(p, 1, Min(hits) - 1))>>
             \o SplitAtChar(lstrip(SubSeq(p, Min(hits) + 1, n)), c)

RECURSIVE SplitAtWord(_, _)
\* re.split(r"\s+w\s+", p) for the words w of tokens (no flags: the letter
\* case counts)
SplitAtWord(p, tokens) ==
    LET n == Len(p)
        tokenAt(j) == {t \in tokens : /\ j + Len(t) <= n
                                      /\ SubSeq(p, j, j + Len(t) - 1) = t
                                      /\ IsSpace(Char(p, j + Len(t)))}
        starts == {i \in 1..n : /\ IsSpace(Char(p, i))
                                /\ RunEnd(p, i) <= n
                                /\ tokenAt(RunEnd(p, i)) # {}}
    IN  IF starts = {} THEN <<p>>
        ELSE LET i == Min(starts)
                 j == RunEnd(p, i)
                 t == CHOOSE t \in tokenAt(j) : TRUE
             IN  <<SubSeq(p, 1, i - 1)>>
                 \o SplitAtWord(lstrip(SubSeq(p, j + Len(t), n)), tokens)

\* lines 33-36: _SPLITERS, in order
_SPLITERS ==
    << [char |-> ","], [char |-> ";"], [char |-> "&"],
       [words |-> {"and"}], [words |-> {"AND"}],
       [words |-> {"feat.", "feat"}], [words |-> {"ft.", "ft"}],
       [words |-> {"x"}] >>

RECURSIVE SplitParts(_, _)
\* lines 53-56: every part is split by one splitter
SplitParts(parts, sp) ==
    IF Len(parts) = 0 THEN << >>
    ELSE (IF "char" \in DOMAIN sp THEN SplitAtChar(Head(parts), sp.char)
          ELSE SplitAtWord(Head(parts), sp.words))
         \o SplitParts(Tail(parts), sp)

RECURSIVE SplitBySpliters(_, _)
\* lines 51-56
SplitBySpliters(parts, k) ==
    IF k > Len(_SPLITERS) THEN parts
    ELSE SplitBySpliters(SplitParts(parts, _SPLITERS[k]), k + 1)

RECURSIVE StripPunct(_)
\* p.strip(",;•·") on the characters the model's names can hold
StripPunct(p) ==
    IF Len(p) > 0 /\ Char(p, 1) \in {",", ";", "·"}
    THEN StripPunct(SubSeq(p, 2, Len(p)))
    ELSE IF Len(p) > 0 /\ Char(p, Len(p)) \in {",", ";", "·"}
    THEN StripPunct(SubSeq(p, 1, Len(p) - 1))
    ELSE p

RECURSIVE CleanNames(_, _)
\* lines 58-70: cleaned, without "unknown" and "various artists", and
\* without a name met before in another letter case
CleanNames(parts, seen) ==
    IF Len(parts) = 0 THEN << >>
    ELSE LET p == StripPunct(strip(Head(parts)))
             k == lower(p)
         IN  IF p = "" \/ k \in {"unknown", "various artists"} \/ k \in seen
             THEN CleanNames(Tail(parts), seen)
             ELSE <<p>> \o CleanNames(Tail(parts), seen \cup {k})

\* lines 48-71
split_composers(composer_name) ==
    IF composer_name = None \/ composer_name = "" THEN << >>
    ELSE CleanNames(SplitBySpliters(<<composer_name>>, 1), {})

\* v or "" for a value of a JSON object
OrEmpty(v) == IF v = None THEN "" ELSE v

\* lines 247-248: the candidates in the form best_match_index takes
IECands(results) ==
    [i \in 1..Len(results) |->
        [artist |-> OrEmpty(results[i].artistName),
         title |-> OrEmpty(results[i].trackName)]]

\* What a callee hands back: an exception, None, or a found object.
IERaised == [raised |-> TRUE, found |-> FALSE, at |-> 0, sent |-> FALSE]
IENone(sent) == [raised |-> FALSE, found |-> FALSE, at |-> 0, sent |-> sent]
IEFound(i) == [raised |-> FALSE, found |-> TRUE, at |-> i, sent |-> TRUE]

\* lines 230-252: the song of world.results the search accepts (at is its
\* position, from 1); sent tells that the HTTP request of line 240 was made
itunes_lookup_country(artist, title, country, world) ==
    IF world.fails THEN [IERaised EXCEPT !.sent = TRUE]
    ELSE IF Len(world.results) = 0 THEN IENone(TRUE)
    ELSE LET b == best_match_index(IECands(world.results), artist, title)
         IN  IF b.i < 0 \/ b.score < 60 THEN IENone(TRUE)
             ELSE IEFound(b.i + 1)

\* A call of itunes_lookup_country(artist, title, country) with the
\* positional arguments args: with one missing Python raises TypeError
\* before the body is entered.
Call_itunes_lookup_country(args, world) ==
    IF Len(args) # 3 THEN IERaised
    ELSE itunes_lookup_country(args[1], args[2], args[3], world)

\* lines 160-167: the candidates of an Apple Music answer
AMCands(songs) ==
    [i \in 1..Len(songs) |->
        [artist |-> OrEmpty(songs[i].artistName),
         title |-> OrEmpty(songs[i].name)]]

\* lines 139-171
apple_music_search(artist, title, token, world) ==
    IF ~token THEN IENone(FALSE)
    ELSE IF world.status = 401 THEN IENone(TRUE)
    ELSE IF world.fails THEN [IERaised EXCEPT !.sent = TRUE]
    ELSE IF Len(world.songs) = 0 THEN IENone(TRUE)
    ELSE LET b == best_match_index(AMCands(world.songs), artist, title)
         IN  IF b.i < 0 \/ b.score < 60 THEN IENone(TRUE)
             ELSE IEFound(b.i + 1)

\* lines 181-192: what the iTunes step leaves in genre and composers
IEItunesStep(call, itunes) ==
    IF call.raised \/ ~call.found
    THEN [genre |-> None, composers |-> << >>]
    ELSE [genre |-> IF itunes.results[call.at].primaryGenreName \in {None, ""}
                    THEN None
                    ELSE itunes.results[call.at].primaryGenreName,
          composers |-> split_composers(itunes.results[call.at].composerName)]

\* lines 203-213: Apple Music fills the genre and the composers that are
\* still empty
IEAppleStep(call, apple, got) ==
    IF call.raised \/ ~call.found THEN got
    ELSE [genre |-> IF got.genre = None
                       /\ Len(apple.songs[call.at].genreNames) > 0
                    THEN apple.songs[call.at].genreNames[1]
                    ELSE got.genre,
          composers |-> IF apple.songs[call.at].composerName \notin {None, ""}
                           /\ Len(got.composers) = 0
                        THEN split_composers(apple.songs[call.at].composerName)
                        ELSE got.composers]

\* lines 215-227: the updates; a key that is not set is Absent, no writers
\* is the empty list
IEUpdates(got, it_call, am_call) ==
    [genre |-> IF got.genre \notin {None, ""} THEN got.genre ELSE Absent,
     writers |-> got.composers,
     itunes_sent |-> it_call.sent,
     itunes_found |-> ~it_call.raised /\ it_call.found,
     apple_sent |-> am_call.sent]

\* lines 174-227: the updates, with what was asked of the two services
enrich_one(artist, title, token, itunes, apple) ==
    LET it_call == Call_itunes_lookup_country(
                       <<normalize_text(artist), normalize_text(title)>>, itunes)
        am_call == apple_music_search(normalize_text(artist),
                                      normalize_text(title), token, apple)
    IN  IEUpdates(IEAppleStep(am_call, apple, IEItunesStep(it_call, itunes)),
                  it_call, am_call)

\* Songs the iTunes search can return: artistName, trackName,
\* primaryGenreName, composerName.
IESongs ==
    { [artistName |-> "ABBA", trackName |-> "Waterloo",
       primaryGenreName |-> "Pop",
       composerName |-> "Benny Andersson & Bjorn Ulvaeus, Stig Anderson"],
      [artistName |-> "ABBA", trackName |-> "Dancing Queen",
       primaryGenreName |-> "Disco", composerName |-> None],
      [artistName |-> "Abba Tribute", trackName |-> "Money",
       primaryGenreName |-> "Rock", composerName |-> "Unknown"],
      [artistName |-> "Queen", trackName |-> "Waterloo (Live)",
       primaryGenreName |-> None, composerName |-> "Freddie x Brian"] }

IESongLists == UNION {[1..n -> IESongs] : n \in 0..MaxCands}

IEItunesWorlds ==
    {[fails |-> TRUE, results |-> << >>]}
    \cup {[fails |-> FALSE, results |-> l] : l \in IESongLists}

\* Answers of the Apple Music catalog.
IEAppleSong ==
    [artistName |-> "ABBA", name |-> "Waterloo",
     genreNames |-> <<"Europop", "Music">>, composerName |-> "Stig Anderson"]

IEAppleWorlds ==
    { [status |-> 200, fails |-> FALSE, songs |-> <<IEAppleSong>>],
      [status |-> 200, fails |-> FALSE, songs |-> << >>],
      [status |-> 401, fails |-> FALSE, songs |-> << >>],
      [status |-> 500, fails |-> TRUE, songs |-> << >>] }

\* The songs asked about: artist and title of a playlist record.
IEQueries == {<<"ABBA", "Waterloo">>, <<"Abba feat. Cher", "Waterloo (feat. Cher)">>}

ItunesEnrichInit ==
    /\ fn_pc = "call" /\ fn_res = None
    /\ \/ /\ fn_name = "enrich_one"
          /\ fn_arg \in [query : IEQueries, token : BOOLEAN,
                         itunes : IEItunesWorlds, apple : IEAppleWorlds]
       \/ /\ fn_name = "itunes_lookup_country"
          /\ fn_arg \in [query : IEQueries,
                         itunes : IEItunesWorlds, country : {"sk"}]

\* enrich_one(artist, title)
CallEnrichOne ==
    /\ fn_pc = "call" /\ fn_name = "enrich_one"
    /\ fn_res' = enrich_one(fn_arg.query[1], fn_arg.query[2], fn_arg.token,
                            fn_arg.itunes, fn_arg.apple)
    /\ fn_pc' = "done"
    /\ UNCHANGED <<fn_name, fn_arg>> /\ FNOnly

\* itunes_lookup_country(artist, title, country)
CallItunesLookupCountry ==
    /\ fn_pc = "call" /\ fn_name = "itunes_lookup_country"
    /\ fn_res' = Call_itunes_lookup_country(
                     <<fn_arg.query[1], fn_arg.query[2], fn_arg.country>>,
                     fn_arg.itunes)
    /\ fn_pc' = "done"
    /\ UNCHANGED <<fn_name, fn_arg>> /\ FNOnly

InitItunesEnrich == ItunesEnrichInit /\ ACIdle /\ EIIdle /\ MBZIdle /\ SCIdle

NextItunesEnrich ==
    \/ CallEnrichOne
    \/ CallItunesLookupCountry

SpecItunesEnrich == InitItunesEnrich /\ [][NextItunesEnrich]_vars

(***************************************************************************)
(* Properties                                                              *)
(***************************************************************************)

C2_ExhaustedLeavesCache ==
    /\ [][(ACInLoop /\ ACCur = "exhausted")
            => /\ ac_cache' = ac_cache
               /\ ac_items'[ac_idx].artist_country = NOT_FOUND
               /\ ac_calls' = ac_calls]_vars
    /\ [](\A k \in ACKeys :
            (ac_cache[k] = CACHE_MISS /\ ac_cache0[k] # CACHE_MISS)
              => k \in ac_looked)

\* The step just taken found the budget used up for an artist the cache
\* does not know.
C2_Witness ==
    /\ ac_last = "exhausted" /\ ac_idx > 1
    /\ ac_items[ac_idx - 1].artist_country = NOT_FOUND
    /\ ac_cache[KeyOfArtist[ACArtist(ac_items[ac_idx - 1])]] = Absent
    /\ ac_lookups = ac_limit

\* C3: in enrich_musicbrainz.main, a record that is not looked up because
\* --limit or --writers-limit is used up leaves artist_map and writers_map
\* as they are (no not-found marker is stored for its key).
C3_NoMarkerOnExhaustion ==
    [][/\ (mbz_pc = "country" /\ MBZCountryCur = "c_exhausted")
            => artist_map' = artist_map
       /\ (mbz_pc = "writers" /\ MBZWritersCur = "w_exhausted")
            => writers_map' = writers_map]_vars

\* C4: whatever force is, enrich_artist_country leaves an artist_country
\* that was resolved at the start of the run as it was.
C4_ResolvedCountryKept ==
    \A i \in 1..Len(ac_items) :
        ac_items0[i].artist_country \notin {Absent, None, "", NOT_FOUND}
          => ac_items[i].artist_country = ac_items0[i].artist_country

\* C5: whatever force is, enrich_items leaves a field among year,
\* duration_ms, genre, album, track_number and artist_country_code that was
\* resolved at the start of the run as it was.
C5_ResolvedFieldsKept ==
    \A i \in 1..Len(ei_items) : \A k \in EIFields :
        ei_items0[i][k] \notin {Absent, None, "", NOT_FOUND}
          => ei_items[i][k] = ei_items0[i][k]

\* A forced run merged an iTunes answer into a record that had a year of
\* its own: the album was filled, the year is the old one.
C5_Witness ==
    /\ ei_force /\ ei_phase = "done" /\ it_calls >= 1
    /\ \E i \in 1..Len(ei_items) :
         /\ ei_items0[i].year = "1999" /\ ei_items0[i].album = NOT_FOUND
         /\ ei_items[i].album = "Waterloo" /\ ei_items[i].year = "1999"

\* C6: with force, the values a lookup fetched overwrite the metadata the
\* record already has: after a forced iTunes lookup that found a track,
\* every meta field of the record holds the fetched value.
C6_ForceOverwrites ==
    (/\ ei_force /\ ei_last = "it_lookup" /\ ei_phase = "mb"
     /\ it_cache[EIKey(EIItem)].py = "dict")
      => \A k \in MetaKeySet :
           DictGet(it_cache[EIKey(EIItem)].d, k) \notin {None, ""}
             => EIItem[k] = DictGet(it_cache[EIKey(EIItem)].d, k)

C8_PayloadServedFromCache ==
    [][/\ (EIReady("itunes") /\ it_cache[EIKey(EIItem)].py = "dict")
            => (it_calls' = it_calls /\ it_lookups' = it_lookups)
       /\ (EIReady("mb") /\ mb_cache[EIKey(EIItem)].py = "dict")
            => (mb_calls' = mb_calls /\ mb_lookups' = mb_lookups)]_vars

\* C9 as stated: a second unforced run on the output of the first, with
\* the same limit, makes no lookup and changes nothing.
C9_SecondRunIdle ==
    (ac_run >= 2 /\ ~ac_force)
      => (ac_lookups = 0 /\ ac_items = ac_items0 /\ ac_cache = ac_cache0)

\* C9, amended: a second unforced run on the output of the first, with the
\* same limit, makes no lookup and changes nothing, provided the first run
\* did not leave a record unresolved because its budget was used up.
C9_SecondRunIdleUnlessDeferred ==
    (ac_run >= 2 /\ ~ac_force /\ ~ac_prev.exhausted)
      => (ac_lookups = 0 /\ ac_items = ac_items0 /\ ac_cache = ac_cache0)

\* The second run is over; the first made lookups within its budget, one of
\* them without result.
C9_Witness ==
    /\ ac_run = 2 /\ ac_pc = "done" /\ ~ac_force /\ ~ac_prev.exhausted
    /\ ac_prev.lookups >= 1
    /\ \E a \in StrippedArtists \ {""} :
         ac_catalog[a] = None /\ ac_cache[KeyOfArtist[a]] = CACHE_MISS

\* C10: the number of outbound MusicBrainz HTTP requests (_mb_get) of a
\* run of enrich_items is at most mb_limit, and mb_lookups is that number.
C10_MbRequestsBounded ==
    /\ mb_requests <= mb_limit
    /\ mb_lookups = mb_requests

\* C11: at every point of a run of enrich_musicbrainz the shared songwriter
\* budget is at least 0, every songwriter call has lowered it by exactly 1,
\* and the number of such calls is at most writers_limit.
C11_WritersBudget ==
    /\ writers_budget >= 0
    /\ writers_budget = writers_limit - mbz_sw_calls
    /\ mbz_sw_calls <= writers_limit

\* C12: after enrich_items has returned, each of year, duration_ms, genre,
\* album, track_number and artist_country_code of every record is resolved
\* or "Not found": none is absent, None or the empty string.
C12_AllFieldsStamped ==
    ei_phase = "done" =>
        \A i \in 1..Len(ei_items) : \A k \in EIFields :
            Get(ei_items[i], k) \notin {None, ""}


\* C13: a record of enrich_items whose artist or title is empty after
\* trimming triggers no iTunes or MusicBrainz lookup, leaves both lookup
\* counters and both caches unchanged, and ends with the five META_KEYS and
\* artist_country_code equal to "Not found".
C13_RejectedRecordStamped ==
    [][(/\ ei_phase = "itunes" /\ ei_idx <= Len(ei_items)
        /\ (EIArtist(EIItem) = "" \/ EITitle(EIItem) = ""))
         => /\ it_calls' = it_calls /\ mb_calls' = mb_calls
            /\ it_lookups' = it_lookups /\ mb_lookups' = mb_lookups
            /\ it_cache' = it_cache /\ mb_cache' = mb_cache
            /\ \A k \in EIFields : ei_items'[ei_idx][k] = NOT_FOUND]_vars


\* C14: the items_changed value enrich_items returns is the number of
\* records whose stored fields differ between entry and return; a record is
\* counted at most once, so the value never exceeds the number of records.
C14_ItemsChangedCountsRecords ==
    ei_phase = "done" =>
        /\ changed_items
             = Cardinality({i \in 1..Len(ei_items) : ei_items[i] # ei_items0[i]})
        /\ changed_items <= Len(ei_items)


\* C15: _update_if_missing returns changed_any = TRUE exactly when at least
\* one field of the record has another value after the call than before
\* it (the calls of lines 392 and 402, on the meta dict of an iTunes lookup
\* or of the iTunes cache).
C15_ChangedAnyIffDiffers ==
    /\ (EIReady("itunes") /\ EIItCur = "it_lookup")
         => \A answer \in ITAnswers :
              ItunesResultOf[answer].py = "dict"
                => LET upd == _update_if_missing(EIItem, ItunesResultOf[answer].d,
                                                 MetaKeySet)
                   IN  upd.changed <=> (upd.item # EIItem)
    /\ (EIReady("itunes") /\ EIItCur = "it_cached"
        /\ it_cache[EIKey(EIItem)].py = "dict")
         => LET upd == _update_if_missing(EIItem, it_cache[EIKey(EIItem)].d,
                                          MetaKeySet)
            IN  upd.changed <=> (upd.item # EIItem)


\* A step of enrich_items wrote a value other than "Not found" into one
\* of the six fields of the current record.
C16_RealWrite ==
    /\ ei_idx <= Len(ei_items)
    /\ \E k \in EIFields :
         /\ ei_items'[ei_idx][k] # ei_items[ei_idx][k]
         /\ ei_items'[ei_idx][k] # NOT_FOUND

\* C16: items_enriched_itunes (items_enriched_mb) counts the distinct
\* records into which the iTunes (MusicBrainz) phase wrote at least one
\* value other than "Not found", from a lookup or from the cache; a record
\* that received only placeholders is not counted.
C16_EnrichedCountsRealWrites ==
    [][/\ ei_phase = "itunes"
            => /\ enriched_itunes_ids'
                    = enriched_itunes_ids
                        \cup (IF C16_RealWrite THEN {ei_idx} ELSE {})
               /\ enriched_mb_ids' = enriched_mb_ids
       /\ ei_phase = "mb"
            => /\ enriched_mb_ids'
                    = enriched_mb_ids \cup (IF C16_RealWrite THEN {ei_idx} ELSE {})
               /\ enriched_itunes_ids' = enriched_itunes_ids
       /\ ei_phase \in {"final", "done"}
            => /\ enriched_itunes_ids' = enriched_itunes_ids
               /\ enriched_mb_ids' = enriched_mb_ids
               /\ ~C16_RealWrite]_vars

\* A finished run in which the iTunes lookup of record 1 matched a track
\* and gave the record only placeholders (not counted), and MusicBrainz
\* gave it a real value (counted).
C16_Witness ==
    /\ ei_phase = "done" /\ Len(ei_items) >= 1
    /\ it_calls = 1 /\ it_cache[EIKey(ei_items[1])].py = "dict"
    /\ ei_items0[1].year = Absent /\ ei_items[1].year = NOT_FOUND
    /\ enriched_itunes_ids = {} /\ enriched_mb_ids = {1}


\* C17: the first value enrich_artist_country returns (enriched) is the
\* number of items whose artist_country was filled with a country code
\* during the run: every step of the loop that writes a code into the
\* current item adds one to it, and no other step changes it.
C17_EnrichedCountsFilledItems ==
    [][ACInLoop
         => ac_enriched'
              = ac_enriched
                  + (IF /\ ac_last' \in {"hit", "lookup"}
                        /\ ac_items'[ac_idx].artist_country
                             \notin {Absent, None, "", NOT_FOUND}
                     THEN 1 ELSE 0)]_vars


\* C18: in writers_map the states "key never tried" (no entry), "looked
\* up, nothing found" (None) and "resolved to an empty list" ([]) stay
\* apart across load, processing and save: no step of main turns an entry
\* of one of the three states into another of them without a lookup, and
\* in particular an entry holding the empty list is never read or stored
\* as the miss marker.
C18_EmptyListIsNotMiss ==
    [][\A k \in MBZKeys :
         /\ writers_map[k] = PyList(<< >>) => writers_map'[k] # PyNone
         /\ writers_map[k] = PyNone => writers_map'[k] # PyList(<< >>)]_vars


\* The cache entries a run of enrich_artist_country leaves
C19_Entries == {k \in ACKeys : ac_cache[k] # Absent}

\* The outcome of C19: one lookup, one cache entry under the normalized
\* artist name, and the record agrees with the entry.
C19_Outcome ==
    /\ ac_lookups = 1 /\ ac_calls = 1
    /\ C19_Entries = {KeyOfArtist[ACArtist(ac_items[1])]}
    /\ LET entry == ac_cache[KeyOfArtist[ACArtist(ac_items[1])]]
       IN  \/ /\ entry \notin {CACHE_MISS, ""}
              /\ ac_items[1].artist_country = entry
           \/ /\ entry = CACHE_MISS
              /\ ac_items[1].artist_country = NOT_FOUND

\* An unforced run over one record, from an empty cache, with a limit of
\* at least 1, that has returned or has ended in an exception
C19_Scenario ==
    /\ ac_pc \in {"done", "raised"} /\ Len(ac_items) = 1
    /\ \A k \in ACKeys : ac_cache0[k] = Absent
    /\ ac_limit >= 1 /\ ~ac_force

\* C19 as stated: for a single record with a non-empty artist, an empty
\* cache, limit >= 1 and force = False, enrich_artist_country makes exactly
\* one lookup and leaves exactly one cache entry, keyed by the normalized
\* artist name: the country code, which the record then holds, or
\* CACHE_MISS with the record "Not found".
C19_OneLookupOneEntry ==
    (C19_Scenario /\ ACArtist(ac_items[1]) # "") => C19_Outcome

\* C20: when the catalog call of mb_lookup_country fails at transport level
\* (timeout, non-2xx status or malformed response), enrich_artist_country
\* raises nothing: the attempt counts against the budget, the key is
\* cached as CACHE_MISS, the item is set to "Not found" and the loop goes
\* on with the next item.
C20_TransportFailureIsNotFound ==
    [][(ACInLoop /\ ac_last' \in ACTransport \cup {"not_object"})
         => /\ ac_pc' = "loop"
            /\ ac_lookups' = ac_lookups + 1
            /\ ac_cache'[KeyOfArtist[ACArtist(ACItem)]] = CACHE_MISS
            /\ ac_items'[ac_idx].artist_country = NOT_FOUND
            /\ ac_idx' = ac_idx + 1]_vars


\* C21: itunes_lookup returns None when the result list is empty or the
\* best score 0.55 * title similarity + 0.45 * artist similarity is below
\* 0.72; otherwise it returns the metadata of the candidate with the
\* highest score, the first one among ties.
C21_ItunesThresholdFirstBest ==
    (fn_pc = "done" /\ fn_name = "itunes_lookup") =>
        LET n == Len(fn_arg)
            S(i) == 55 * fn_arg[i].s_title + 45 * fn_arg[i].s_artist
        IN IF n = 0 \/ \A i \in 1..n : S(i) < 7200
           THEN fn_res.value = None
           ELSE \E i \in 1..n :
                    /\ \A j \in 1..n : S(j) <= S(i)
                    /\ \A j \in 1..(i - 1) : S(j) < S(i)
                    /\ fn_res.value = fn_arg[i].trackId

\* Two candidates tie above the threshold and the first is returned.
C21_Witness ==
    /\ fn_pc = "done" /\ fn_name = "itunes_lookup" /\ Len(fn_arg) = 2
    /\ itunes_score(fn_arg[1]) = itunes_score(fn_arg[2])
    /\ itunes_score(fn_arg[1]) >= 7200
    /\ fn_res.value = 1


\* C22: mb_lookup_country (both scripts) rejects the best candidate, and
\* returns None, when its score is below an acceptance threshold of at
\* least 0.60.
C22_CountryThreshold ==
    (/\ fn_pc = "done"
     /\ fn_name \in {"enrich_artist_country.mb_lookup_country",
                     "enrich_musicbrainz.mb_lookup_country"}
     /\ fn_res.best_score < 6000)
        => fn_res.value = None


\* C23: every candidate scorer computes a convex combination of its
\* similarity terms, so the score of every candidate, and the best score
\* kept, lies in [0, 1].
C23_ScoreInUnitInterval ==
    fn_pc = "done" =>
        LET Score(c) ==
                CASE fn_name = "itunes_lookup" -> itunes_score(c)
                  [] fn_name = "enrich_artist_country.mb_lookup_country"
                         -> AC_score(c)
                  [] fn_name = "enrich_musicbrainz.mb_lookup_country"
                         -> MBZ_score(c)
                  [] fn_name = "mb_search_recording" -> recording_score(c)
        IN /\ \A i \in 1..Len(fn_arg) :
                  0 <= Score(fn_arg[i]) /\ Score(fn_arg[i]) <= 10000
           /\ 0 <= fn_res.best_score /\ fn_res.best_score <= 10000


\* C24: the artist-key normalisation maps "Iron   Maiden (Live)" and
\* "iron maiden" to the same key, and "Novák, Ján" and "Ján Novák" to the
\* same key.
C24_SpellingsShareKey ==
    (/\ fn_pc = "done"
     /\ fn_arg \in {<<"Iron   Maiden (Live)", "iron maiden">>,
                    <<"Novák, Ján", "Ján Novák">>})
        => fn_res[1] = fn_res[2]


\* C25: every outbound catalog call is followed by its rate-limit pause
\* before the next outbound call or the end of the run, whether the call
\* succeeded, failed or returned no match.  For enrich_artist_country:
\* between two steps of the loop and when the run has ended, every call of
\* mb_lookup_country made has been followed by time.sleep(pause_s).
C25_PauseAfterEveryCall == ac_pauses = ac_calls


\* The record the loop is at is deferred: it needs a lookup of key k and
\* the budget is used up (lines 197-200).
C26_Deferred(k) ==
    /\ ACInLoop /\ ACCur = "exhausted"
    /\ KeyOfArtist[ACArtist(ACItem)] = k

\* C26: with force off, a fixed record list and limit >= 1, repeated runs
\* of enrich_artist_country eventually reach a run that performs zero
\* lookups; and a record deferred by budget exhaustion in one run is looked
\* up in a later run.
C26_RunsReachFixpoint ==
    /\ <>(ac_pc = "done" /\ ac_calls = 0)
    /\ \A k \in ACKeys : [](C26_Deferred(k) => <>(k \in ac_looked))


\* C27: enrich_artist_country terminates after visiting every record
\* exactly once, in order, whatever the outcome of the individual lookups
\* (no lookup failure aborts the batch); on return with force off every
\* record's artist_country is a country code or "Not found".  Stated of
\* the end of a run: the run is over only by returning, with the loop past
\* the last record, each step having advanced it by one record.
C27_BatchIsTotal ==
    /\ ac_pc \in {"loop", "done"}
    /\ ac_idx <= Len(ac_items) + 1
    /\ ac_pc = "done" => ac_idx = Len(ac_items) + 1
    /\ (ac_pc = "done" /\ ~ac_force) =>
           \A i \in 1..Len(ac_items) :
               ac_items[i].artist_country \in {"GB", "SK", NOT_FOUND}


\* C28: merge_dedup(old, new) returns a list in which no two records share
\* a unique_key and which holds a record for every key of old or new, and
\* added is the number of distinct keys of new that are not keys of old.
\* Checked of the file main has written: old is the file it found, new is
\* the parsed page.
C28_MergeDedup ==
    (sc_pc = "returned" /\ sc_writes = 1) =>
        LET KeysOf(l) == {SCKeyOf[l[i]] : i \in 1..Len(l)}
        IN  /\ \A i, j \in 1..Len(sc_file) :
                   SCKeyOf[sc_file[i]] = SCKeyOf[sc_file[j]] => i = j
            /\ KeysOf(sc_file0) \cup KeysOf(sc_page) \subseteq KeysOf(sc_file)
            /\ sc_added = Cardinality(KeysOf(sc_page) \ KeysOf(sc_file0))

\* The file held one play twice, as two records that differ, and the page
\* holds another play twice: the file written has the two plays once
\* each, the play of the file as its later record, and one record is
\* added.
C28_Witness ==
    /\ sc_pc = "returned" /\ sc_writes = 1
    /\ Len(sc_file0) = 2 /\ sc_file0[1] # sc_file0[2]
    /\ unique_key(sc_file0[1]) = unique_key(sc_file0[2])
    /\ Len(sc_page) = 2 /\ sc_page[1] = sc_page[2]
    /\ unique_key(sc_page[1]) # unique_key(sc_file0[1])
    /\ sc_added = 1 /\ Len(sc_file) = 2
    /\ \E i \in 1..2 : sc_file[i] = sc_file0[2]

\* C29: when fetch_html fails on every host with a network error, or
\* parsing yields no records, scraper.main returns 0 and leaves the
\* playlist file unchanged.
C29_FailedRunLeavesFile ==
    (/\ sc_pc = "returned"
     /\ \/ \A h \in 1..Len(sc_hosts) : sc_hosts[h] = "error"
        \/ sc_page = << >>)
        => /\ sc_ret = 0
           /\ sc_writes = 0
           /\ sc_file = sc_file0

\* A page without records was fetched from the second host, the first
\* having failed, and the run has returned.
C29_Witness ==
    /\ sc_pc = "returned" /\ sc_hosts = <<"error", "ok">>
    /\ sc_page = << >> /\ sc_file0 # << >> /\ sc_ret = 0


\* C30: after enrich_musicbrainz.main no record carries the legacy field
\* artist_country: it has been moved to artist_country_code and removed.
C30_LegacyFieldRemoved ==
    mbz_pc = "done" =>
        \A i \in 1..Len(mbz_items) : mbz_items[i].artist_country = Absent


C32_OneLookupPerKey ==
    [][(ACInLoop /\ ac_calls' = ac_calls + 1)
           => KeyOfArtist[ACArtist(ACItem)] \notin ac_looked]_vars

\* C32 amended: a key already looked up in this run is looked up again
\* only when force is on and the earlier lookup found nothing (the cache
\* holds CACHE_MISS for it); with force off, or once a country was found,
\* the cached result serves the remaining records of that artist.
C32_OneLookupPerKeyUnlessForcedMiss ==
    [][(/\ ACInLoop /\ ac_calls' = ac_calls + 1
        /\ KeyOfArtist[ACArtist(ACItem)] \in ac_looked)
           => /\ ac_force
              /\ ac_cache[KeyOfArtist[ACArtist(ACItem)]] = CACHE_MISS]_vars

\* Two records of one artist, force on, budget for both: one lookup found
\* the country and the second record took it from the cache.
C32_Witness ==
    /\ ac_pc = "done" /\ ac_run = 1 /\ ac_force /\ ac_limit = 2
    /\ Len(ac_items) = 2
    /\ ac_items[1].artist # ac_items[2].artist
    /\ KeyOfArtist[ACArtist(ac_items[1])] = KeyOfArtist[ACArtist(ac_items[2])]
    /\ ac_calls = 1 /\ ac_cache0["abba"] = Absent
    /\ ac_items[1].artist_country = "GB" /\ ac_items[2].artist_country = "GB"


\* C33: during enrich_artist_country the cache is modified only
\* immediately after an outbound lookup and only at the key of the artist
\* just looked up; every other branch of the loop leaves the cache as it
\* is, so the number of keys added or changed in a run is at most lookups.
C33_CacheWrittenOnlyByLookup ==
    /\ [][ac_cache' # ac_cache =>
              /\ ACInLoop /\ ACCur = "lookup"
              /\ ac_calls' = ac_calls + 1
              /\ \A k \in ACKeys \ {KeyOfArtist[ACArtist(ACItem)]} :
                     ac_cache'[k] = ac_cache[k]]_vars
    /\ [](Cardinality({k \in ACKeys : ac_cache[k] # ac_cache0[k]})
              <= ac_lookups)

\* A run has looked one artist up, which changed one key of the cache,
\* and has passed a record deferred by the budget, which changed none.
C33_Witness ==
    /\ ac_pc = "done" /\ ac_lookups = 1 /\ ac_exhausted
    /\ Cardinality({k \in ACKeys : ac_cache[k] # ac_cache0[k]}) = 1
    /\ Len(ac_items) = 2


\* C34: after a run of enrich_artist_country with force off, every record
\* that came in unresolved (artist_country absent, None, empty or
\* "Not found") with a non-empty artist agrees with the cache: it holds
\* cache[key] when that entry is a country code, and "Not found" when the
\* entry is the miss sentinel or the key is absent.  It holds of every
\* record the loop has passed, hence of every record once the run returns.
C34_Unresolved(i) ==
    /\ Get(ac_items0[i], "artist_country") \in {None, "", NOT_FOUND}
    /\ ACArtist(ac_items0[i]) # ""

C34_Agrees(i) ==
    LET state == CacheGet(ac_cache, KeyOfArtist[ACArtist(ac_items0[i])])
    IN  IF state \in {None, CACHE_MISS}
        THEN ac_items[i].artist_country = NOT_FOUND
        ELSE ac_items[i].artist_country = state

C34_RecordsAgreeWithCache ==
    ~ac_force =>
        /\ \A i \in 1..Len(ac_items) :
               (i < ac_idx /\ C34_Unresolved(i)) => C34_Agrees(i)
        /\ ac_pc = "done" => ac_idx = Len(ac_items) + 1

\* A returned run with force off in which one record was looked up and
\* found and a second of the same key, in another spelling, took the
\* code from the cache.
C34_Witness ==
    /\ ac_pc = "done" /\ ~ac_force /\ ac_run = 1 /\ ac_limit = 1
    /\ Len(ac_items) = 2 /\ ac_lookups = 1
    /\ C34_Unresolved(1) /\ C34_Unresolved(2)
    /\ ac_items0[1].artist # ac_items0[2].artist
    /\ ac_cache0["abba"] = Absent /\ ac_cache["abba"] = "GB"
    /\ ac_items[1].artist_country = "GB" /\ ac_items[2].artist_country = "GB"


\* C35: in enrich_items iTunes is the primary source and MusicBrainz the
\* fallback.  For each record the iTunes phase is over before the
\* MusicBrainz phase begins, and the MusicBrainz phase (and the closing
\* placeholders) writes only fields that are unset or "Not found" after the
\* iTunes phase and touches no other record; so a field that was unset and
\* for which iTunes holds a resolved value ends with the iTunes value,
\* whatever MusicBrainz holds for it.
C35_Unset(v) == v \in {Absent, None, "", NOT_FOUND}

C35_ItunesValueStays ==
    /\ [][/\ ei_phase' = "mb" =>
                /\ ei_phase \in {"itunes", "mb"} /\ ei_idx' = ei_idx
                /\ mb_cache' = mb_cache /\ mb_calls' = mb_calls
          /\ (ei_phase = "mb" /\ ei_phase' # "mb") =>
                /\ ei_phase' = "final" /\ ei_idx' = ei_idx
                /\ it_cache' = it_cache /\ it_calls' = it_calls
          /\ ei_phase \in {"mb", "final"} =>
                \A i \in 1..Len(ei_items) : \A k \in EIFields :
                    (i # ei_idx \/ ~C35_Unset(ei_items[i][k]))
                        => ei_items'[i][k] = ei_items[i][k]]_vars
    /\ [](~ei_force =>
            \A i \in 1..Len(ei_items) : \A k \in MetaKeySet :
                (/\ i < ei_idx
                 /\ EIArtist(ei_items0[i]) # "" /\ EITitle(ei_items0[i]) # ""
                 /\ C35_Unset(ei_items0[i][k])
                 /\ it_cache[EIKey(ei_items0[i])].py = "dict"
                 /\ ~C35_Unset(DictGet(it_cache[EIKey(ei_items0[i])].d, k)))
                => ei_items[i][k] = it_cache[EIKey(ei_items0[i])].d[k])

\* One run has asked iTunes and MusicBrainz about a blank record, both
\* answered with an album and the two albums differ: the record holds the
\* album of iTunes and the country code of MusicBrainz.
C35_Witness ==
    /\ ei_phase = "done" /\ Len(ei_items) = 1
    /\ it_calls = 1 /\ mb_calls = 1
    /\ C35_Unset(ei_items0[1].album)
    /\ 1 \in enriched_itunes_ids /\ 1 \in enriched_mb_ids
    /\ it_cache[EIKey(ei_items[1])].py = "dict"
    /\ mb_cache[EIKey(ei_items[1])].py = "dict"
    /\ ~C35_Unset(it_cache[EIKey(ei_items[1])].d.album)
    /\ ~C35_Unset(mb_cache[EIKey(ei_items[1])].d.album)
    /\ it_cache[EIKey(ei_items[1])].d.album # mb_cache[EIKey(ei_items[1])].d.album
    /\ ei_items[1].album = it_cache[EIKey(ei_items[1])].d.album
    /\ ei_items[1].artist_country_code
           = mb_cache[EIKey(ei_items[1])].d.artist_country_code
    /\ ~C35_Unset(ei_items[1].artist_country_code)


\* C36: when lookup_songwriters stops because the shared budget reached 0
\* before the call for the recording's details (the recording was found
\* and never inspected), main does not record the key as not found in
\* writers_map, so the record is tried again in a later run: an exhausted
\* budget writes no miss for a record that was not fully tried.
C36_CutLookupNotCached ==
    [][(/\ mbz_pc = "writers" /\ MBZWritersCur = "w_lookup"
        /\ mbz_last' = "w_cut")
           => writers_map'[MBZKeyAt] = PyAbsent]_vars

\* The state the code reaches instead: the budget of 1 went into the
\* search, which found the recording, and the key is stored as not found.
C36_CutStoredAsMiss ==
    /\ mbz_last = "w_cut" /\ mbz_run = 1 /\ writers_limit = 1
    /\ writers_budget = 0 /\ mbz_sw_calls = 1
    /\ writers_map["ABBA|Waterloo"] = PyNone
    /\ mbz_items[1].songwriters = PyNone


\* C37: in itunes_enrich.enrich_one the iTunes search is performed first
\* and, whenever it returns an accepted candidate, that candidate's
\* primaryGenreName and composerName populate the returned genre and
\* writers; Apple Music data is used only for what iTunes left empty.
\* Stated of a finished call against the answer itunes_lookup_country gives
\* for the same song and the same iTunes results.
C37_ItunesFirst ==
    (fn_pc = "done" /\ fn_name = "enrich_one") =>
        LET search == itunes_lookup_country(normalize_text(fn_arg.query[1]),
                                            normalize_text(fn_arg.query[2]),
                                            "sk", fn_arg.itunes)
            song == fn_arg.itunes.results[search.at]
        IN  /\ fn_res.itunes_sent
            /\ (search.found /\ song.primaryGenreName \notin {None, ""})
                   => fn_res.genre = song.primaryGenreName
            /\ (search.found /\ Len(split_composers(song.composerName)) > 0)
                   => fn_res.writers = split_composers(song.composerName)

\* The state the code reaches instead: iTunes holds the song with its
\* genre and composers, no Apple Music token is set, and enrich_one has
\* returned no update without a request to iTunes.
C37_ItunesNeverAsked ==
    /\ fn_pc = "done" /\ fn_name = "enrich_one"
    /\ fn_arg.query = <<"ABBA", "Waterloo">> /\ ~fn_arg.token
    /\ ~fn_arg.itunes.fails /\ Len(fn_arg.itunes.results) = 1
    /\ fn_arg.itunes.results[1].trackName = "Waterloo"
    /\ itunes_lookup_country("ABBA", "Waterloo", "sk", fn_arg.itunes).found
    /\ ~fn_res.itunes_sent
    /\ fn_res.genre = Absent /\ fn_res.writers = << >>


\* C38: in itunes_enrich a candidate is accepted (best_match_index gives it
\* a score of 60 or more) only if its title matches the title asked for,
\* exactly or by containment; a candidate that matches on the artist alone
\* is rejected.
C38_TitleMatches(t, target_title) ==
    \/ norm(t) = norm(target_title)
    \/ Contains(norm(t), norm(target_title))
    \/ Contains(norm(target_title), norm(t))

C38_AcceptedOnlyByTitle ==
    (fn_pc = "done" /\ fn_name = "itunes_lookup_country" /\ fn_res.found) =>
        C38_TitleMatches(OrEmpty(fn_arg.itunes.results[fn_res.at].trackName),
                         fn_arg.query[2])

\* The state the code reaches instead: asked for "Waterloo" by ABBA, the
\* search accepts "Dancing Queen", whose artist is ABBA (score 60 + 0).
C38_AcceptedOnArtistAlone ==
    /\ fn_pc = "done" /\ fn_name = "itunes_lookup_country"
    /\ fn_arg.query = <<"ABBA", "Waterloo">>
    /\ Len(fn_arg.itunes.results) = 1
    /\ fn_res.found /\ fn_res.at = 1
    /\ fn_arg.itunes.results[1].trackName = "Dancing Queen"
    /\ score_pair("ABBA", "Dancing Queen", "ABBA", "Waterloo") = 60

=============================================================================
